---- MODULE Spec2Model ----
(***************************************************************************)
(* feller: collection of secrets from the configured providers             *)
(* (pkg/providers) and their synchronization into GitHub repository and    *)
(* Dependabot secrets (cmd/github_secret_add.go).                          *)
(*                                                                         *)
(* Spec         one or two consecutive invocations of 'github-secret add'  *)
(* SpecCollect  one call of CollectSecretsWithResult                       *)
(* SpecTeller   'github-secret add' over a teller configuration            *)
(* SpecCommand  the run, export and sh commands                            *)
(* SpecEnvFile  loadEnvFile on the text of a file                          *)
(* SpecConfirm  'github-secret add --confirm-overwrite' and standard input *)
(***************************************************************************)
EXTENDS Integers, Sequences, FiniteSets, TLC

\* ------------------------------------------------------------------ bounds
NumKeys == 2          \* secret names handed to the synchronization
MaxMaps == 2          \* path maps in the configuration, all providers together
MaxLen == 5           \* characters after the key part of a line of a dotenv file
MaxInput == 3         \* lines of standard input

\* ------------------------------------------------ synchronization: values
KeyNames == <<"A", "B", "C", "D">>
Keys == {KeyNames[i] : i \in 1..NumKeys}
NoKey == ""           \* no key is between its two scopes
NoSecret == "none"    \* the key is not in the remote scope
OldValue == "old"     \* a value stored before the first invocation
NewValue == "new"     \* the value teller hands over
OtherValue == "other" \* another value teller may hand over
Scopes == {"repository", "Dependabot"}
Answers == {"y", "n", "ya", "na", "eof"}
Nil == "nil"

VARIABLES
    \* flags of github-secret add
    repo, dependabot, dryRun, force, skipExisting, confirmOverwrite,
    \* interactive confirmation state
    yesToAll, noToAll,
    \* the collaborators
    secrets,      \* what getSecretsFromTeller returns: key -> value
    remote,       \* the GitHub store: scope -> key -> value or NoSecret
    \* addGitHubSecrets / setGitHubSecrets
    pc, existing, stats, todo, cur, returned, cmdErr, reported,
    \* observations of one invocation
    setCalls,     \* (key, scope) pairs for which 'gh secret set' was executed
    prompts,      \* prompts printed
    reads,        \* answers requested from standard input
    firstAnswer,  \* the recognised answer (or eof) that ended the first prompt
    failedPair,   \* the (key, scope) pair whose mutation failed
    listed,       \* 'gh secret list' was executed
    processed,    \* (key, scope) pairs setGitHubSecretIfNeeded was called for
    reports,      \* what setGitHubSecret printed, logged and returned as error
    run, prev, remote0,
    \* CollectSecretsWithResult
    cfg,          \* TellerConfig.Providers, in the order of their declaration
    environ,      \* the process environment
    files,        \* the dotenv files
    allSecrets,   \* what 'teller export json' prints, parsed
    cpc, gsmTodo, dotenvTodo, collected, collectRet,
    adapterOut,   \* what the adapter returned for each provider processed
    collectResult,\* the *CollectionResult that CollectSecretsWithResult returned
    \* run, export, sh
    githubActions,\* GITHUB_ACTIONS is "true"
    silent,       \* --silent
    command,      \* the command invoked
    outcome,      \* what the command did
    \* loadEnvFile
    lines,        \* the lines of the file not scanned yet
    env,          \* the map being filled
    lastEntry,    \* key and trimmed value, quotes included, of the last KEY=VALUE line
    lpc,
    \* standard input of github-secret add
    stdin,        \* the lines not read yet
    stdin0,       \* the lines standard input held when the run began
    decisions     \* for each prompt printed, in order: what was read for it

syncVars == <<repo, dependabot, dryRun, force, skipExisting, confirmOverwrite,
              yesToAll, noToAll, secrets, remote, pc, existing, stats, todo, cur,
              returned, cmdErr, reported, setCalls, prompts, reads, firstAnswer,
              failedPair, listed, processed, reports, run, prev, remote0>>
collectVars == <<cfg, environ, files, allSecrets, cpc, gsmTodo, dotenvTodo, collected, collectRet,
                 adapterOut, collectResult>>
commandVars == <<githubActions, silent, command, outcome>>
envFileVars == <<lines, env, lastEntry, lpc>>
promptVars == <<stdin, stdin0, decisions>>
vars == <<syncVars, collectVars, commandVars, envFileVars, promptVars>>

\* A Go map[string]string: a function whose domain is the set of keys present.
MapSet(m, k, v) == [x \in DOMAIN m \cup {k} |-> IF x = k THEN v ELSE m[x]]
EmptyMap == [x \in {} |-> ""]

\* SecretOperationStats{}
SecretOperationStats == [Created |-> 0, Updated |-> 0, Skipped |-> 0, Failed |-> 0]

\* ExistingSecrets with both maps made and empty
ExistingSecrets == [Repository |-> {}, Dependabot |-> {}]

\* what setGitHubSecrets has returned: nothing yet, or (stats, err)
NotReturned == [returned |-> FALSE, statsNil |-> TRUE, stats |-> SecretOperationStats,
                err |-> FALSE]
Return(s, e) == [returned |-> TRUE, statsNil |-> FALSE, stats |-> s, err |-> e]

NoPair == <<NoKey, "">>
NoRun == [dryRun |-> FALSE, stats |-> SecretOperationStats, existing |-> ExistingSecrets]

ScopeOf(isDependabot) == IF isDependabot THEN "Dependabot" ELSE "repository"

\* validateOverwriteFlags: TRUE when it returns an error
validateOverwriteFlags_AllThree ==
    LET flagCount == (IF force THEN 1 ELSE 0) + (IF skipExisting THEN 1 ELSE 0)
                     + (IF confirmOverwrite THEN 1 ELSE 0)
    IN  flagCount > 2

validateOverwriteFlags ==
    LET flagCount == (IF force THEN 1 ELSE 0) + (IF skipExisting THEN 1 ELSE 0)
                     + (IF confirmOverwrite THEN 1 ELSE 0)
    IN  flagCount > 1

\* names 'gh secret list' reports for a scope
listGitHubSecrets(isDependabot) ==
    {k \in Keys : remote[ScopeOf(isDependabot)][k] # NoSecret}

\* getExistingGitHubSecrets, both listings having succeeded
getExistingGitHubSecrets_RepositoryOnly ==
    [Repository |-> listGitHubSecrets(FALSE), Dependabot |-> {}]

getExistingGitHubSecrets ==
    [Repository |-> listGitHubSecrets(FALSE),
     Dependabot |-> IF dependabot THEN listGitHubSecrets(TRUE) ELSE {}]

\* updateStats
updateStats_CountTwice(s, res) ==
    CASE res = "created" -> [s EXCEPT !.Created = @ + 1]
      [] res = "updated" -> [s EXCEPT !.Updated = @ + 1, !.Created = @ + 1]
      [] res = "skipped" -> [s EXCEPT !.Skipped = @ + 1]
      [] OTHER -> s

updateStats_SkippedDropped(s, res) ==
    CASE res = "created" -> [s EXCEPT !.Created = @ + 1]
      [] res = "updated" -> [s EXCEPT !.Updated = @ + 1]
      [] OTHER -> s

updateStats(s, res) ==
    CASE res = "created" -> [s EXCEPT !.Created = @ + 1]
      [] res = "updated" -> [s EXCEPT !.Updated = @ + 1]
      [] res = "skipped" -> [s EXCEPT !.Skipped = @ + 1]
      [] OTHER -> s

\* promptForOverwrite: ans is the recognised answer typed, or the end of input
NoPrompt(approve) ==
    [approve |-> approve, yesToAll |-> yesToAll, noToAll |-> noToAll,
     prompts |-> 0, reads |-> 0, answer |-> Nil]

promptForOverwrite_AskAgain(ans) ==
    IF dryRun THEN NoPrompt(TRUE)
    ELSE [approve |-> ans \in {"y", "ya"},
          yesToAll |-> (yesToAll \/ ans = "ya"),
          noToAll |-> (noToAll \/ ans = "na"),
          prompts |-> 1,
          reads |-> 1,
          answer |-> ans]

promptForOverwrite_DryRunNo(ans) ==
    IF yesToAll THEN NoPrompt(TRUE)
    ELSE IF noToAll THEN NoPrompt(FALSE)
    ELSE IF dryRun THEN NoPrompt(FALSE)
    ELSE [approve |-> ans \in {"y", "ya"},
          yesToAll |-> (ans = "ya"),
          noToAll |-> (ans = "na"),
          prompts |-> 1,
          reads |-> 1,
          answer |-> ans]

promptForOverwrite_DryRunAsks(ans) ==
    IF yesToAll THEN NoPrompt(TRUE)
    ELSE IF noToAll THEN NoPrompt(FALSE)
    ELSE [approve |-> ans \in {"y", "ya"},
          yesToAll |-> (ans = "ya"),
          noToAll |-> (ans = "na"),
          prompts |-> 1,
          reads |-> 1,
          answer |-> ans]

promptForOverwrite_BothSet(ans) ==
    IF yesToAll THEN NoPrompt(TRUE)
    ELSE IF noToAll THEN NoPrompt(FALSE)
    ELSE IF dryRun THEN NoPrompt(TRUE)
    ELSE [approve |-> ans \in {"y", "ya"},
          yesToAll |-> (ans \in {"ya", "na"}),
          noToAll |-> (ans = "na"),
          prompts |-> 1,
          reads |-> 1,
          answer |-> ans]

promptForOverwrite(ans) ==
    IF yesToAll THEN NoPrompt(TRUE)
    ELSE IF noToAll THEN NoPrompt(FALSE)
    ELSE IF dryRun THEN NoPrompt(TRUE)
    ELSE [approve |-> ans \in {"y", "ya"},
          yesToAll |-> (ans = "ya"),
          noToAll |-> (ans = "na"),
          prompts |-> 1,
          reads |-> 1,
          answer |-> ans]

\* setGitHubSecret: ghOk is whether 'gh secret set' exits with 0
setGitHubSecret_Always(key, isDependabot, ghOk) ==
    [called |-> TRUE, err |-> ~ghOk]

setGitHubSecret(key, isDependabot, ghOk) ==
    IF dryRun THEN [called |-> FALSE, err |-> FALSE]
    ELSE [called |-> TRUE, err |-> ~ghOk]

\* setGitHubSecretIfNeeded, the switch over the overwrite flags for a secret
\* that exists: whether the secret is set, and what promptForOverwrite did
overwriteStrategy_NoSkip(ask) ==
    IF confirmOverwrite THEN [set |-> ask.approve, prompt |-> ask]
    ELSE [set |-> TRUE, prompt |-> NoPrompt(TRUE)]

overwriteStrategy_DefaultSkips(ask) ==
    IF skipExisting THEN [set |-> FALSE, prompt |-> NoPrompt(FALSE)]
    ELSE IF confirmOverwrite THEN [set |-> ask.approve, prompt |-> ask]
    ELSE IF force THEN [set |-> TRUE, prompt |-> NoPrompt(TRUE)]
    ELSE [set |-> FALSE, prompt |-> NoPrompt(FALSE)]

overwriteStrategy_IgnoreAnswer(ask) ==
    IF skipExisting THEN [set |-> FALSE, prompt |-> NoPrompt(FALSE)]
    ELSE IF confirmOverwrite THEN [set |-> TRUE, prompt |-> ask]
    ELSE [set |-> TRUE, prompt |-> NoPrompt(TRUE)]

overwriteStrategy(ask) ==
    IF skipExisting THEN [set |-> FALSE, prompt |-> NoPrompt(FALSE)]
    ELSE IF confirmOverwrite THEN [set |-> ask.approve, prompt |-> ask]
    ELSE [set |-> TRUE, prompt |-> NoPrompt(TRUE)]

\* setGitHubSecret: the lines about a mutation. In dry-run mode the 'Would
\* execute' line; otherwise the debug line of the command, which is joined from
\* the arguments without the last one (the value), and the error if gh fails.
Report(kind, key, isDependabot, body) ==
    [kind |-> kind, key |-> key, scope |-> ScopeOf(isDependabot), repo |-> repo,
     body |-> body]

setGitHubSecretReports_Body(key, value, isDependabot, ghOk) ==
    IF dryRun THEN {Report("Would execute", key, isDependabot, "<redacted>")}
    ELSE {Report("Executing", key, isDependabot, value)}
         \cup (IF ghOk THEN {} ELSE {Report("failed to set", key, isDependabot, "")})

setGitHubSecretReports(key, value, isDependabot, ghOk) ==
    IF dryRun THEN {Report("Would execute", key, isDependabot, "<redacted>")}
    ELSE {Report("Executing", key, isDependabot, "<redacted>")}
         \cup (IF ghOk THEN {} ELSE {Report("failed to set", key, isDependabot, "")})

\* setGitHubSecretIfNeeded
setGitHubSecretIfNeeded_CreateAsUpdate(key, isDependabot, ans, ghOk) ==
    LET existingSecrets == IF isDependabot THEN existing.Dependabot
                           ELSE existing.Repository
        set == setGitHubSecret(key, isDependabot, ghOk)
        strategy == overwriteStrategy(promptForOverwrite(ans))
        mutate(res, p) == [result |-> IF set.err THEN "" ELSE res, err |-> set.err,
                           called |-> set.called, prompt |-> p,
                           reports |-> setGitHubSecretReports(key, secrets[key],
                                                              isDependabot, ghOk)]
    IN  IF key \in existingSecrets
        THEN IF strategy.set
             THEN mutate("updated", strategy.prompt)
             ELSE [result |-> "skipped", err |-> FALSE, called |-> FALSE,
                   prompt |-> strategy.prompt, reports |-> {}]
        ELSE mutate("updated", NoPrompt(TRUE))

setGitHubSecretIfNeeded_RepositorySet(key, isDependabot, ans, ghOk) ==
    LET existingSecrets == existing.Repository
        set == setGitHubSecret(key, isDependabot, ghOk)
        strategy == overwriteStrategy(promptForOverwrite(ans))
        mutate(res, p) == [result |-> IF set.err THEN "" ELSE res, err |-> set.err,
                           called |-> set.called, prompt |-> p,
                           reports |-> setGitHubSecretReports(key, secrets[key],
                                                              isDependabot, ghOk)]
    IN  IF key \in existingSecrets
        THEN IF strategy.set
             THEN mutate("updated", strategy.prompt)
             ELSE [result |-> "skipped", err |-> FALSE, called |-> FALSE,
                   prompt |-> strategy.prompt, reports |-> {}]
        ELSE mutate("created", NoPrompt(TRUE))

setGitHubSecretIfNeeded(key, isDependabot, ans, ghOk) ==
    LET existingSecrets == IF isDependabot THEN existing.Dependabot
                           ELSE existing.Repository
        set == setGitHubSecret(key, isDependabot, ghOk)
        strategy == overwriteStrategy(promptForOverwrite(ans))
        mutate(res, p) == [result |-> IF set.err THEN "" ELSE res, err |-> set.err,
                           called |-> set.called, prompt |-> p,
                           reports |-> setGitHubSecretReports(key, secrets[key],
                                                              isDependabot, ghOk)]
    IN  IF key \in existingSecrets
        THEN IF strategy.set
             THEN mutate("updated", strategy.prompt)
             ELSE [result |-> "skipped", err |-> FALSE, called |-> FALSE,
                   prompt |-> strategy.prompt, reports |-> {}]
        ELSE mutate("created", NoPrompt(TRUE))

\* ------------------------------------------------------ collection: values
GSM == "google_secretmanager"
Dotenv == "dotenv"
ProviderNames == <<"p1", "p2">>      \* in the order the configuration declares them
SrcKeys == {"A", "B"}                \* keys of a source: variables, file entries
OutKeys == {"X", "Y"}                \* keys the bindings map them to
Paths == {"f1", "f2"}

\* PathMap.Keys: the bindings of a path map, a map from source to output key
Bindings == UNION {[d -> OutKeys] : d \in SUBSET SrcKeys}

\* PathMap; the path of a google_secretmanager map is only logged
PathMap(kind) ==
    IF kind = GSM THEN {[Keys |-> b, Path |-> "gsm"] : b \in Bindings}
    ELSE {[Keys |-> b, Path |-> f] : b \in Bindings, f \in Paths}

\* Provider with m path maps
Provider(m) ==
    {[Kind |-> k, Maps |-> ms] : k \in {GSM}, ms \in [1..m -> PathMap(GSM)]}
    \cup {[Kind |-> k, Maps |-> ms] : k \in {Dotenv}, ms \in [1..m -> PathMap(Dotenv)]}

\* the process environment: os.Getenv gives "" for a variable that is not set
Environments ==
    {[k \in SrcKeys |-> IF k = "A" THEN a ELSE b] : a \in {"", "1"}, b \in {"", "2"}}

\* the files: what loadEnvFile returns for a path, a map or an error
Readable(m) == [err |-> FALSE, env |-> m]
Unreadable == [err |-> TRUE, env |-> EmptyMap]
FileSystems ==
    {[f \in Paths |-> IF f = "f1"
                      THEN Readable([k \in SrcKeys |-> IF k = "A" THEN "5" ELSE ""])
                      ELSE g] :
        g \in {Unreadable, Readable([k \in {"B"} |-> "7"])}}

\* TellerConfig.GetProvidersByKind: the names of the providers of a kind
GetProvidersByKind(kind) == {i \in DOMAIN cfg : cfg[i].Kind = kind}

\* the orders in which a range statement may visit the keys of a Go map
RECURSIVE Orders(_)
Orders(S) ==
    IF S = {} THEN {<<>>}
    ELSE UNION {{<<x>> \o o : o \in Orders(S \ {x})} : x \in S}

\* loadEnvFile
loadEnvFile(filePath) == files[filePath]

\* collectGSMSecretsWithMissing, one binding of a path map
GSMBinding_SourceKey(acc, fromKey, toKey, providerName) ==
    IF environ[fromKey] # ""
    THEN [acc EXCEPT !.secrets = MapSet(@, fromKey, environ[fromKey])]
    ELSE [acc EXCEPT !.missingVars =
              Append(@, [VariableName |-> fromKey, MappedTo |-> toKey,
                         Provider |-> providerName])]

GSMBinding_KeepEmpty(acc, fromKey, toKey, providerName) ==
    IF environ[fromKey] # ""
    THEN [acc EXCEPT !.secrets = MapSet(@, toKey, environ[fromKey])]
    ELSE [secrets |-> MapSet(acc.secrets, toKey, environ[fromKey]),
          missingVars |-> Append(acc.missingVars,
                           [VariableName |-> fromKey, MappedTo |-> toKey,
                            Provider |-> providerName])]

GSMBinding(acc, fromKey, toKey, providerName) ==
    IF environ[fromKey] # ""
    THEN [acc EXCEPT !.secrets = MapSet(@, toKey, environ[fromKey])]
    ELSE [acc EXCEPT !.missingVars =
              Append(@, [VariableName |-> fromKey, MappedTo |-> toKey,
                         Provider |-> providerName])]

\* collectGSMSecretsWithMissing, the bindings of a path map in one order
RECURSIVE GSMKeys(_, _, _, _)
GSMKeys(acc, keys, order, providerName) ==
    IF order = <<>> THEN acc
    ELSE GSMKeys(GSMBinding(acc, Head(order), keys[Head(order)], providerName),
                 keys, Tail(order), providerName)

\* collectGSMSecretsWithMissing, the path maps in the order of the slice; the
\* result is the set of what the call may return, one per order of the keys
RECURSIVE GSMMaps(_, _, _)
GSMMaps(accs, maps, providerName) ==
    IF maps = <<>> THEN accs
    ELSE LET keys == Head(maps).Keys
             after == IF DOMAIN keys = {} THEN accs
                      ELSE {GSMKeys(a, keys, o, providerName) :
                               a \in accs, o \in Orders(DOMAIN keys)}
         IN  GSMMaps(after, Tail(maps), providerName)

collectGSMSecretsWithMissing(provider, providerName) ==
    GSMMaps({[secrets |-> EmptyMap, missingVars |-> <<>>]}, provider.Maps, providerName)

\* collectDotenvSecrets, the bindings of a path map in one order
RECURSIVE DotenvKeys_Unrenamed(_, _, _, _)
DotenvKeys_Unrenamed(secs, keys, order, envFile) ==
    IF order = <<>> THEN secs
    ELSE LET fromKey == Head(order)
             next == IF fromKey \in DOMAIN envFile
                     THEN MapSet(secs, fromKey, envFile[fromKey])
                     ELSE secs
         IN  DotenvKeys_Unrenamed(next, keys, Tail(order), envFile)

RECURSIVE DotenvKeys(_, _, _, _)
DotenvKeys(secs, keys, order, envFile) ==
    IF order = <<>> THEN secs
    ELSE LET fromKey == Head(order)
             next == IF fromKey \in DOMAIN envFile
                     THEN MapSet(secs, keys[fromKey], envFile[fromKey])
                     ELSE secs
         IN  DotenvKeys(next, keys, Tail(order), envFile)

\* collectDotenvSecrets, discovery mode: all keys of the file
DotenvDiscover_SkipEmpty(secs, envFile) ==
    [k \in DOMAIN secs \cup {f \in DOMAIN envFile : envFile[f] # ""} |->
        IF k \in DOMAIN envFile /\ envFile[k] # "" THEN envFile[k] ELSE secs[k]]

DotenvDiscover(secs, envFile) ==
    [k \in DOMAIN secs \cup DOMAIN envFile |->
        IF k \in DOMAIN envFile THEN envFile[k] ELSE secs[k]]

\* collectDotenvSecrets, the path maps in the order of the slice
RECURSIVE DotenvMaps(_, _)
DotenvMaps(accs, maps) ==
    IF maps = <<>> THEN accs
    ELSE LET keys == Head(maps).Keys
             file == loadEnvFile(Head(maps).Path)
             after == IF DOMAIN keys = {}
                      THEN {DotenvDiscover(a, file.env) : a \in accs}
                      ELSE {DotenvKeys(a, keys, o, file.env) :
                               a \in accs, o \in Orders(DOMAIN keys)}
         IN  IF file.err THEN {}
             ELSE DotenvMaps(after, Tail(maps))

\* collectDotenvSecrets: what the call may return; an error when a file of
\* the provider cannot be loaded
collectDotenvSecrets(provider) ==
    LET outs == DotenvMaps({EmptyMap}, provider.Maps)
    IN  IF outs = {} THEN {[err |-> TRUE, secrets |-> EmptyMap]}
        ELSE {[err |-> FALSE, secrets |-> o] : o \in outs}

\* CollectSecretsWithResult, the merge of a provider's secrets into the result
MergeSecrets(into, providerSecrets) ==
    [k \in DOMAIN into \cup DOMAIN providerSecrets |->
        IF k \in DOMAIN providerSecrets THEN providerSecrets[k] ELSE into[k]]

\* CollectSecretsWithResult, the order of its two loops: the kind whose next
\* provider is processed, or "return" after the last one
ProviderLoop_DotenvFirst ==
    IF dotenvTodo # {} THEN Dotenv
    ELSE IF gsmTodo # {} THEN GSM
    ELSE "return"

ProviderLoop ==
    IF gsmTodo # {} THEN GSM
    ELSE IF dotenvTodo # {} THEN Dotenv
    ELSE "return"

\* CollectSecretsWithResult, result.HasMissingVars
HasMissingVars_OffByOne(missingVars) == Len(missingVars) > 1

HasMissingVars(missingVars) == Len(missingVars) > 0

\* CollectionResult{Secrets: make(SecretMap), MissingVars: []MissingVariable{}}
CollectionResult == [Secrets |-> EmptyMap, MissingVars |-> <<>>, HasMissingVars |-> FALSE]

\* the *CollectionResult returned: nil, or a pointer to a result
NilResult == [nil |-> TRUE, value |-> CollectionResult]
ResultPtr(result) == [nil |-> FALSE, value |-> result]

\* CollectSecretsWithResult, collectDotenvSecrets returned an error: what is
\* returned next to the error
DotenvFailure_Partial(result) == ResultPtr(result)

DotenvFailure(result) == NilResult

\* ----------------------------------------------------------------- actions
Flags == <<repo, dependabot, dryRun, force, skipExisting, confirmOverwrite>>
Observed == <<setCalls, prompts, reads, firstAnswer, failedPair, processed, reports>>
History == <<run, prev, remote0>>

ReturnError ==
    /\ pc' = "done"
    /\ cmdErr' = TRUE

\* addGitHubSecrets up to the call of getSecretsFromTeller:
\* validateOverwriteFlags, validateRequiredTools
Validate ==
    /\ pc = "validate"
    /\ \E toolsOk \in BOOLEAN :
         IF validateOverwriteFlags \/ ~toolsOk
         THEN ReturnError
         ELSE pc' = "teller" /\ cmdErr' = cmdErr
    /\ UNCHANGED <<Flags, yesToAll, noToAll, secrets, remote, existing, stats, todo,
                   cur, returned, reported, listed, Observed, History, collectVars, commandVars, envFileVars, promptVars>>

\* addGitHubSecrets: getSecretsFromTeller returns the secrets or fails
GetSecrets ==
    /\ pc = "teller"
    /\ \E tellerOk \in BOOLEAN :
         IF tellerOk THEN pc' = "list" /\ cmdErr' = cmdErr ELSE ReturnError
    /\ UNCHANGED <<Flags, yesToAll, noToAll, secrets, remote, existing, stats, todo,
                   cur, returned, reported, listed, Observed, History, collectVars, commandVars, envFileVars, promptVars>>

\* addGitHubSecrets: getExistingGitHubSecrets, then the entry of setGitHubSecrets
ListExisting_IgnoreFailure ==
    /\ pc = "list"
    /\ \E listOk \in BOOLEAN, listDependabotOk \in BOOLEAN :
         /\ existing' = IF listOk /\ (dependabot => listDependabotOk)
                        THEN getExistingGitHubSecrets ELSE ExistingSecrets
         /\ stats' = SecretOperationStats
         /\ todo' = DOMAIN secrets
         /\ pc' = "loop"
         /\ cmdErr' = cmdErr
    /\ listed' = TRUE
    /\ UNCHANGED <<Flags, yesToAll, noToAll, secrets, remote, cur, returned, reported,
                   Observed, History, collectVars, commandVars, envFileVars, promptVars>>

ListExisting ==
    /\ pc = "list"
    /\ \E listOk \in BOOLEAN, listDependabotOk \in BOOLEAN :
         IF listOk /\ (dependabot => listDependabotOk)
         THEN /\ existing' = getExistingGitHubSecrets
              /\ stats' = SecretOperationStats
              /\ todo' = DOMAIN secrets
              /\ pc' = "loop"
              /\ cmdErr' = cmdErr
         ELSE /\ ReturnError
              /\ UNCHANGED <<existing, stats, todo>>
    /\ listed' = TRUE
    /\ UNCHANGED <<Flags, yesToAll, noToAll, secrets, remote, cur, returned, reported,
                   Observed, History, collectVars, commandVars, envFileVars, promptVars>>

\* setGitHubSecrets, a call of setGitHubSecretIfNeeded returned an error:
\* stats.Failed++ and return stats, err; addGitHubSecrets returns the error
AbortOnError_Continue(pair, next) ==
    /\ stats' = [stats EXCEPT !.Failed = @ + 1]
    /\ failedPair' = pair
    /\ next
    /\ UNCHANGED <<returned, cmdErr>>

AbortOnError(pair, next) ==
    /\ stats' = [stats EXCEPT !.Failed = @ + 1]
    /\ returned' = Return(stats', TRUE)
    /\ failedPair' = pair
    /\ ReturnError
    /\ UNCHANGED <<todo, cur>>

\* One call of setGitHubSecretIfNeeded from the loop of setGitHubSecrets, with
\* the handling of its result; next is where the loop goes on after a success.
Process(key, isDependabot, ans, ghOk, next) ==
    LET r == setGitHubSecretIfNeeded(key, isDependabot, ans, ghOk)
        pair == <<key, ScopeOf(isDependabot)>>
    IN  /\ yesToAll' = r.prompt.yesToAll
        /\ noToAll' = r.prompt.noToAll
        /\ prompts' = prompts + r.prompt.prompts
        /\ reads' = reads + r.prompt.reads
        /\ firstAnswer' = IF firstAnswer = Nil THEN r.prompt.answer ELSE firstAnswer
        /\ setCalls' = IF r.called THEN setCalls \cup {pair} ELSE setCalls
        /\ processed' = processed \cup {pair}
        /\ reports' = reports \cup r.reports
        /\ remote' = IF r.called /\ ~r.err
                     THEN [remote EXCEPT ![pair[2]][key] = secrets[key]]
                     ELSE remote
        /\ IF r.err
           THEN AbortOnError(pair, next)
           ELSE /\ stats' = updateStats(stats, r.result)
                /\ failedPair' = failedPair
                /\ next
                /\ UNCHANGED <<returned, cmdErr>>
        /\ UNCHANGED <<Flags, secrets, existing, reported, listed, History, collectVars, commandVars, envFileVars>>

\* setGitHubSecrets: the repository secret of the next key of the map
ProcessRepository ==
    /\ pc = "loop"
    /\ \E key \in todo, ans \in Answers, ghOk \in BOOLEAN :
         Process(key, FALSE, ans, ghOk,
                 IF dependabot
                 THEN pc' = "dependabot" /\ cur' = key /\ todo' = todo
                 ELSE pc' = "loop" /\ cur' = NoKey /\ todo' = todo \ {key})
    /\ UNCHANGED promptVars

\* setGitHubSecrets: the Dependabot secret of the same key
ProcessDependabot ==
    /\ pc = "dependabot"
    /\ \E ans \in Answers, ghOk \in BOOLEAN :
         Process(cur, TRUE, ans, ghOk,
                 pc' = "loop" /\ cur' = NoKey /\ todo' = todo \ {cur})
    /\ UNCHANGED promptVars

\* setGitHubSecrets returns stats, nil; addGitHubSecrets prints the summary
Finish ==
    /\ pc = "loop"
    /\ todo = {}
    /\ returned' = Return(stats, FALSE)
    /\ reported' = TRUE
    /\ pc' = "done"
    /\ UNCHANGED <<Flags, yesToAll, noToAll, secrets, remote, existing, stats, todo,
                   cur, cmdErr, listed, Observed, History, collectVars, commandVars, envFileVars, promptVars>>

\* A second invocation of the command after a first one that ended without
\* error and without asking anything: the same command line again, or the real
\* run after its dry-run preview.
NextRun ==
    /\ pc = "done"
    /\ run = 1
    /\ ~cmdErr
    /\ prompts = 0
    /\ run' = 2
    /\ prev' = [dryRun |-> dryRun, stats |-> stats, existing |-> existing]
    /\ remote0' = remote
    /\ dryRun' = FALSE
    /\ yesToAll' = FALSE
    /\ noToAll' = FALSE
    /\ pc' = "validate"
    /\ existing' = ExistingSecrets
    /\ stats' = SecretOperationStats
    /\ todo' = {}
    /\ returned' = NotReturned
    /\ reported' = FALSE
    /\ setCalls' = {}
    /\ prompts' = 0
    /\ reads' = 0
    /\ firstAnswer' = Nil
    /\ failedPair' = NoPair
    /\ listed' = FALSE
    /\ processed' = {}
    /\ reports' = {}
    /\ UNCHANGED <<repo, dependabot, force, skipExisting, confirmOverwrite, secrets,
                   remote, cur, cmdErr, collectVars, commandVars, envFileVars, promptVars>>

CollectNotCalled ==
    /\ environ = EmptyMap
    /\ files = EmptyMap
    /\ cpc = "idle"
    /\ gsmTodo = {}
    /\ dotenvTodo = {}
    /\ collected = CollectionResult
    /\ collectRet = "none"
    /\ adapterOut = EmptyMap
    /\ collectResult = NilResult

CollectIdle ==
    /\ cfg = <<>>
    /\ allSecrets = EmptyMap
    /\ CollectNotCalled

\* no command that collects is running
NoOutcome == [kind |-> "none", err |-> FALSE, secrets |-> EmptyMap]
CommandIdle ==
    /\ githubActions = TRUE
    /\ silent = FALSE
    /\ command = "none"
    /\ outcome = NoOutcome

\* nothing is asked on standard input
PromptIdle ==
    /\ stdin = <<>>
    /\ stdin0 = <<>>
    /\ decisions = <<>>

\* loadEnvFile is not running
NoEntry == [isEntry |-> FALSE, key |-> <<>>, value |-> <<>>]
EnvFileIdle ==
    /\ lines = <<>>
    /\ env = EmptyMap
    /\ lastEntry = NoEntry
    /\ lpc = "idle"

Init ==
    /\ repo = "owner/repo"
    /\ dependabot \in BOOLEAN
    /\ dryRun \in BOOLEAN
    /\ force \in BOOLEAN
    /\ skipExisting \in BOOLEAN
    /\ confirmOverwrite \in BOOLEAN
    /\ yesToAll = FALSE
    /\ noToAll = FALSE
    /\ \E present \in SUBSET Keys : secrets = [k \in present |-> NewValue]
    /\ remote \in [Scopes -> [Keys -> {NoSecret, OldValue}]]
    /\ \A s \in Scopes, k \in Keys \ DOMAIN secrets : remote[s][k] = NoSecret
    /\ pc = "validate"
    /\ existing = ExistingSecrets
    /\ stats = SecretOperationStats
    /\ todo = {}
    /\ cur = NoKey
    /\ returned = NotReturned
    /\ cmdErr = FALSE
    /\ reported = FALSE
    /\ setCalls = {}
    /\ prompts = 0
    /\ reads = 0
    /\ firstAnswer = Nil
    /\ failedPair = NoPair
    /\ listed = FALSE
    /\ processed = {}
    /\ reports = {}
    /\ run = 1
    /\ prev = NoRun
    /\ remote0 = remote
    /\ CollectIdle
    /\ CommandIdle
    /\ EnvFileIdle
    /\ PromptIdle

Next ==
    \/ Validate
    \/ GetSecrets
    \/ ListExisting
    \/ ProcessRepository
    \/ ProcessDependabot
    \/ Finish
    \/ NextRun

Spec == Init /\ [][Next]_vars

\* ------------------------------------------------ CollectSecretsWithResult
Inputs == <<cfg, environ, files, allSecrets>>

\* the loop over the google_secretmanager providers, one provider
CollectGSMProvider ==
    /\ cpc = "run"
    /\ ProviderLoop = GSM
    /\ \E name \in gsmTodo :
         \E out \in collectGSMSecretsWithMissing(cfg[name], ProviderNames[name]) :
            /\ collected' = [collected EXCEPT
                                !.MissingVars = @ \o out.missingVars,
                                !.Secrets = MergeSecrets(@, out.secrets)]
            /\ gsmTodo' = gsmTodo \ {name}
            /\ adapterOut' = MapSet(adapterOut, name, out)
    /\ UNCHANGED <<Inputs, cpc, dotenvTodo, collectRet, collectResult, syncVars, commandVars, envFileVars, promptVars>>

\* the loop over the dotenv providers, one provider
CollectDotenvProvider ==
    /\ cpc = "run"
    /\ ProviderLoop = Dotenv
    /\ \E name \in dotenvTodo :
         \E out \in collectDotenvSecrets(cfg[name]) :
            IF out.err
            THEN /\ collectRet' = "error"
                 /\ collectResult' = DotenvFailure(collected)
                 /\ cpc' = "done"
                 /\ UNCHANGED <<collected, dotenvTodo, adapterOut>>
            ELSE /\ collected' = [collected EXCEPT
                                     !.Secrets = MergeSecrets(@, out.secrets)]
                 /\ dotenvTodo' = dotenvTodo \ {name}
                 /\ adapterOut' = MapSet(adapterOut, name,
                                         [secrets |-> out.secrets, missingVars |-> <<>>])
                 /\ UNCHANGED <<cpc, collectRet, collectResult>>
    /\ UNCHANGED <<Inputs, gsmTodo, syncVars, commandVars, envFileVars, promptVars>>

\* result.HasMissingVars is set and the result returned
CollectReturn ==
    /\ cpc = "run"
    /\ ProviderLoop = "return"
    /\ collected' = [collected EXCEPT !.HasMissingVars = HasMissingVars(collected.MissingVars)]
    /\ collectRet' = "result"
    /\ collectResult' = ResultPtr(collected')
    /\ cpc' = "done"
    /\ UNCHANGED <<Inputs, gsmTodo, dotenvTodo, adapterOut, syncVars, commandVars, envFileVars, promptVars>>

SyncIdle ==
    /\ repo = "owner/repo"
    /\ dependabot = FALSE
    /\ dryRun = FALSE
    /\ force = FALSE
    /\ skipExisting = FALSE
    /\ confirmOverwrite = FALSE
    /\ yesToAll = FALSE
    /\ noToAll = FALSE
    /\ secrets = EmptyMap
    /\ remote = [s \in Scopes |-> [k \in Keys |-> NoSecret]]
    /\ pc = "idle"
    /\ existing = ExistingSecrets
    /\ stats = SecretOperationStats
    /\ todo = {}
    /\ cur = NoKey
    /\ returned = NotReturned
    /\ cmdErr = FALSE
    /\ reported = FALSE
    /\ setCalls = {}
    /\ prompts = 0
    /\ reads = 0
    /\ firstAnswer = Nil
    /\ failedPair = NoPair
    /\ listed = FALSE
    /\ processed = {}
    /\ reports = {}
    /\ run = 1
    /\ prev = NoRun
    /\ remote0 = remote

\* the configurations: a prefix of ProviderNames, MaxMaps path maps at most
Configuration(c) ==
    \/ c = <<>>
    \/ \E m \in 0..MaxMaps : \E p \in Provider(m) : c = <<p>>
    \/ \E m \in 0..MaxMaps : \E n \in 0..(MaxMaps - m) :
          \E p \in Provider(m), q \in Provider(n) : c = <<p, q>>

InitCollect ==
    /\ SyncIdle
    /\ CommandIdle
    /\ EnvFileIdle
    /\ PromptIdle
    /\ Configuration(cfg)
    /\ environ \in Environments
    /\ files \in FileSystems
    /\ allSecrets = EmptyMap
    /\ cpc = "run"
    /\ gsmTodo = GetProvidersByKind(GSM)
    /\ dotenvTodo = GetProvidersByKind(Dotenv)
    /\ collected = CollectionResult
    /\ collectRet = "none"
    /\ adapterOut = EmptyMap
    /\ collectResult = NilResult

NextCollect ==
    \/ CollectGSMProvider
    \/ CollectDotenvProvider
    \/ CollectReturn

SpecCollect == InitCollect /\ [][NextCollect]_vars

\* ----------------------------------- github-secret add over a configuration
\* getSecretsFromTeller, the map outputKeyToGSMKey (its keys are expectedGSMKeys):
\* the bindings of a path map in one order
RECURSIVE TellerKeys(_, _, _)
TellerKeys(acc, keys, order) ==
    IF order = <<>> THEN acc
    ELSE TellerKeys(MapSet(acc, keys[Head(order)], Head(order)), keys, Tail(order))

\* the path maps of a provider in the order of the slice
RECURSIVE TellerMaps(_, _)
TellerMaps(accs, maps) ==
    IF maps = <<>> THEN accs
    ELSE TellerMaps({TellerKeys(a, Head(maps).Keys, o) :
                        a \in accs, o \in Orders(DOMAIN Head(maps).Keys)},
                    Tail(maps))

\* the google_secretmanager providers in one order
RECURSIVE TellerProviders(_, _)
TellerProviders(accs, order) ==
    IF order = <<>> THEN accs
    ELSE TellerProviders(TellerMaps(accs, cfg[Head(order)].Maps), Tail(order))

\* the maps the loops may build, one per order of the Go maps ranged over
outputKeyToGSMKey ==
    UNION {TellerProviders({EmptyMap}, o) : o \in Orders(GetProvidersByKind(GSM))}

\* getSecretsFromTeller, the filter: one key of teller's output
TellerEntry_NoFilter(acc, rev, outputKey) ==
    IF outputKey \in DOMAIN rev
    THEN MapSet(acc, rev[outputKey], allSecrets[outputKey])
    ELSE IF outputKey \in Keys THEN MapSet(acc, outputKey, allSecrets[outputKey])
    ELSE acc

TellerEntry(acc, rev, outputKey) ==
    IF outputKey \in DOMAIN rev
    THEN MapSet(acc, rev[outputKey], allSecrets[outputKey])
    ELSE acc

RECURSIVE TellerFilter(_, _, _)
TellerFilter(acc, rev, order) ==
    IF order = <<>> THEN acc
    ELSE TellerFilter(TellerEntry(acc, rev, Head(order)), rev, Tail(order))

\* getSecretsFromTeller, the configuration loaded and teller's output parsed:
\* the maps it may return
getSecretsFromTeller ==
    IF GetProvidersByKind(GSM) = {} THEN {EmptyMap}
    ELSE {TellerFilter(EmptyMap, rev, o) :
             rev \in outputKeyToGSMKey, o \in Orders(DOMAIN allSecrets)}

\* addGitHubSecrets: getSecretsFromTeller. LoadConfig may fail; without a
\* google_secretmanager provider the empty map is returned before teller is
\* looked for; otherwise teller may be missing, fail, or print no JSON.
GetSecretsFromTeller ==
    /\ pc = "teller"
    /\ \E loadOk \in BOOLEAN, tellerOk \in BOOLEAN :
         IF ~loadOk \/ (GetProvidersByKind(GSM) # {} /\ ~tellerOk)
         THEN ReturnError /\ secrets' = secrets
         ELSE /\ \E gsmSecrets \in getSecretsFromTeller : secrets' = gsmSecrets
              /\ pc' = "list"
              /\ cmdErr' = cmdErr
    /\ UNCHANGED <<Flags, yesToAll, noToAll, remote, existing, stats, todo,
                   cur, returned, reported, listed, Observed, History, collectVars, commandVars, envFileVars, promptVars>>

\* what teller may print: nothing, the bound output keys, or these and the
\* keys discovered in a file
TellerOutputs ==
    {[k \in S |-> IF k = "X" THEN x ELSE NewValue] :
        S \in {{}, OutKeys, SrcKeys \cup OutKeys}, x \in {NewValue, OtherValue}}

\* the dotenv providers of these configurations: getSecretsFromTeller reads
\* the google_secretmanager providers only
TellerDotenv ==
    {[Kind |-> Dotenv, Maps |-> <<[Keys |-> b, Path |-> "f1"]>>] :
        b \in {EmptyMap, [k \in {"A"} |-> "X"]}}
TellerGSM(m) == {p \in Provider(m) : p.Kind = GSM}

\* a prefix of ProviderNames, MaxMaps path maps at most
TellerConfiguration(c) ==
    \/ c = <<>>
    \/ \E p \in TellerDotenv : c = <<p>>
    \/ \E m \in 0..MaxMaps : \E p \in TellerGSM(m) : c = <<p>>
    \/ \E m \in 0..(MaxMaps - 1) : \E p \in TellerGSM(m), q \in TellerDotenv :
          c = <<p, q>> \/ c = <<q, p>>
    \/ \E m \in 0..MaxMaps : \E n \in 0..(MaxMaps - m) :
          \E p \in TellerGSM(m), q \in TellerGSM(n) : c = <<p, q>>

InitTeller ==
    /\ repo = "owner/repo"
    /\ dependabot = TRUE
    /\ dryRun \in BOOLEAN
    /\ force = FALSE
    /\ skipExisting = FALSE
    /\ confirmOverwrite = FALSE
    /\ yesToAll = FALSE
    /\ noToAll = FALSE
    /\ secrets = EmptyMap
    /\ remote = [s \in Scopes |-> [k \in Keys |->
                     IF s = "repository" /\ k = "A" THEN OldValue ELSE NoSecret]]
    /\ pc = "validate"
    /\ existing = ExistingSecrets
    /\ stats = SecretOperationStats
    /\ todo = {}
    /\ cur = NoKey
    /\ returned = NotReturned
    /\ cmdErr = FALSE
    /\ reported = FALSE
    /\ setCalls = {}
    /\ prompts = 0
    /\ reads = 0
    /\ firstAnswer = Nil
    /\ failedPair = NoPair
    /\ listed = FALSE
    /\ processed = {}
    /\ reports = {}
    /\ run = 1
    /\ prev = NoRun
    /\ remote0 = remote
    /\ TellerConfiguration(cfg)
    /\ allSecrets \in TellerOutputs
    /\ CollectNotCalled
    /\ CommandIdle
    /\ EnvFileIdle
    /\ PromptIdle

NextTeller ==
    \/ Validate
    \/ GetSecretsFromTeller
    \/ ListExisting
    \/ ProcessRepository
    \/ ProcessDependabot
    \/ Finish

SpecTeller == InitTeller /\ [][NextTeller]_vars

\* either entry point over a configuration: the collection, or github-secret add
InitNamespace == InitCollect \/ InitTeller
NextNamespace == NextCollect \/ NextTeller
SpecNamespace == InitNamespace /\ [][NextNamespace]_vars

\* ------------------------------------------------------- run, export, sh
Commands == {"run", "export", "sh"}
Outcome(kind, err, secs) == [kind |-> kind, err |-> err, secrets |-> secs]

\* result.HasMissingVars && !silent
MissingVarsFatal_IgnoreSilent(result) == result.HasMissingVars

MissingVarsFatal(result) == result.HasMissingVars /\ ~silent

\* runCommand, exportSecrets, exportShell up to the call of
\* CollectSecretsWithResult: outside GitHub Actions teller takes over;
\* otherwise the configuration is loaded
Enter ==
    /\ cpc = "command"
    /\ outcome = NoOutcome
    /\ IF ~githubActions
       THEN /\ outcome' = Outcome("teller", FALSE, EmptyMap)
            /\ UNCHANGED <<cpc, gsmTodo, dotenvTodo>>
       ELSE \E loadOk \in BOOLEAN :
               IF loadOk
               THEN /\ cpc' = "run"
                    /\ gsmTodo' = GetProvidersByKind(GSM)
                    /\ dotenvTodo' = GetProvidersByKind(Dotenv)
                    /\ outcome' = outcome
               ELSE /\ outcome' = Outcome("error", TRUE, EmptyMap)
                    /\ UNCHANGED <<cpc, gsmTodo, dotenvTodo>>
    /\ UNCHANGED <<Inputs, collected, collectRet, adapterOut, collectResult,
                   githubActions, silent, command, syncVars, envFileVars, promptVars>>

\* the same commands after CollectSecretsWithResult has returned: its error,
\* the error for missing variables, or the secrets delivered (kind says how)
Leave(kind, mayFail) ==
    /\ cpc = "done"
    /\ outcome = NoOutcome
    /\ IF collectRet = "error"
       THEN outcome' = Outcome("error", TRUE, EmptyMap)
       ELSE IF MissingVarsFatal(collectResult.value)
       THEN outcome' = Outcome("missing", TRUE, EmptyMap)
       ELSE \E failed \in {FALSE, mayFail} :
               outcome' = Outcome(kind, failed, collectResult.value.Secrets)
    /\ UNCHANGED <<collectVars, githubActions, silent, command, syncVars, envFileVars, promptVars>>

\* runCommand: the command is executed with the secrets in its environment
RunEnter ==
    /\ command = "run"
    /\ Enter

RunCommand ==
    /\ command = "run"
    /\ Leave("executed", TRUE)

\* exportSecrets: the secrets are printed in the format asked for
ExportEnter ==
    /\ command = "export"
    /\ Enter

ExportSecrets ==
    /\ command = "export"
    /\ Leave("printed", FALSE)

\* exportShell: the secrets are printed as export statements
ShellEnter ==
    /\ command = "sh"
    /\ Enter

ExportShell ==
    /\ command = "sh"
    /\ Leave("printed", FALSE)

\* the providers of these configurations: one path map at most
CommandDotenv ==
    {[Kind |-> Dotenv, Maps |-> <<>>]}
    \cup {[Kind |-> Dotenv, Maps |-> <<[Keys |-> b, Path |-> f]>>] :
             b \in {EmptyMap, [k \in {"A"} |-> "X"]}, f \in Paths}
CommandGSM == TellerGSM(0) \cup TellerGSM(1)
CommandConfiguration(c) ==
    \/ c = <<>>
    \/ \E p \in CommandGSM \cup CommandDotenv : c = <<p>>
    \/ \E p \in CommandGSM \cup CommandDotenv, q \in CommandGSM \cup CommandDotenv :
          c = <<p, q>>

InitCommand ==
    /\ SyncIdle
    /\ EnvFileIdle
    /\ PromptIdle
    /\ githubActions \in BOOLEAN
    /\ silent \in BOOLEAN
    /\ command \in Commands
    /\ outcome = NoOutcome
    /\ CommandConfiguration(cfg)
    /\ environ \in Environments
    /\ files \in FileSystems
    /\ allSecrets = EmptyMap
    /\ cpc = "command"
    /\ gsmTodo = {}
    /\ dotenvTodo = {}
    /\ collected = CollectionResult
    /\ collectRet = "none"
    /\ adapterOut = EmptyMap
    /\ collectResult = NilResult

NextCommand ==
    \/ RunEnter
    \/ ExportEnter
    \/ ShellEnter
    \/ CollectGSMProvider
    \/ CollectDotenvProvider
    \/ CollectReturn
    \/ RunCommand
    \/ ExportSecrets
    \/ ExportShell

SpecCommand == InitCommand /\ [][NextCommand]_vars

\* ------------------------------------------------------------ loadEnvFile
\* a string is the sequence of its characters
DQ == "\""
SQ == "'"
Chars == {DQ, SQ, "a", " ", "="}

\* strings.TrimSpace
RECURSIVE TrimLeft(_)
TrimLeft(str) == IF str # <<>> /\ Head(str) = " " THEN TrimLeft(Tail(str)) ELSE str
RECURSIVE TrimRight(_)
TrimRight(str) ==
    IF str # <<>> /\ str[Len(str)] = " " THEN TrimRight(SubSeq(str, 1, Len(str) - 1))
    ELSE str
TrimSpace(str) == TrimRight(TrimLeft(str))

\* strings.HasPrefix(line, "#")
IsComment(line) == line # <<>> /\ Head(line) = "#"

\* strings.SplitN(line, "=", 2)
SplitN(line) ==
    LET eqs == {i \in DOMAIN line : line[i] = "="}
    IN  IF eqs = {} THEN <<line>>
        ELSE LET first == CHOOSE i \in eqs : \A j \in eqs : i <= j
             IN  <<SubSeq(line, 1, first - 1), SubSeq(line, first + 1, Len(line))>>

\* loadEnvFile, 'Remove quotes if present'
RECURSIVE RemoveQuotes_Recursive(_)
RemoveQuotes_Recursive(value) ==
    IF /\ Len(value) >= 2
       /\ \/ value[1] = DQ /\ value[Len(value)] = DQ
          \/ value[1] = SQ /\ value[Len(value)] = SQ
    THEN RemoveQuotes_Recursive(SubSeq(value, 2, Len(value) - 1))
    ELSE value

RemoveQuotes(value) ==
    IF /\ Len(value) >= 2
       /\ \/ value[1] = DQ /\ value[Len(value)] = DQ
          \/ value[1] = SQ /\ value[Len(value)] = SQ
    THEN SubSeq(value, 2, Len(value) - 1)
    ELSE value

\* loadEnvFile: os.Open
OpenEnvFile ==
    /\ lpc = "open"
    /\ \E openOk \in BOOLEAN : lpc' = IF openOk THEN "scan" ELSE "error"
    /\ env' = EmptyMap
    /\ UNCHANGED <<lines, lastEntry, syncVars, collectVars, commandVars, promptVars>>

\* loadEnvFile: one turn of the loop over scanner.Scan()
ScanLine ==
    /\ lpc = "scan"
    /\ lines # <<>>
    /\ lines' = Tail(lines)
    /\ LET line == TrimSpace(Head(lines))
           parts == SplitN(line)
       IN  IF line = <<>> \/ IsComment(line) \/ Len(parts) # 2
           THEN UNCHANGED <<env, lastEntry>>
           ELSE LET key == TrimSpace(parts[1])
                    value == TrimSpace(parts[2])
                IN  /\ env' = MapSet(env, key, RemoveQuotes(value))
                    /\ lastEntry' = [isEntry |-> TRUE, key |-> key, value |-> value]
    /\ UNCHANGED <<lpc, syncVars, collectVars, commandVars, promptVars>>

\* loadEnvFile: scanner.Err() and the return
ReturnEnv ==
    /\ lpc = "scan"
    /\ lines = <<>>
    /\ \E scanOk \in BOOLEAN :
           /\ lpc' = IF scanOk THEN "done" ELSE "error"
           /\ env' = IF scanOk THEN env ELSE EmptyMap
    /\ UNCHANGED <<lines, lastEntry, syncVars, collectVars, commandVars, promptVars>>

\* the lines of the files: a key part, then MaxLen characters at most
Texts == UNION {[1..n -> Chars] : n \in 0..MaxLen}
KeyParts == {<<"K", "=">>, <<" ", "K", " ", "=">>, <<"#">>, <<>>}
EnvLines == {k \o t : k \in KeyParts, t \in Texts}

InitEnvFile ==
    /\ SyncIdle
    /\ CollectIdle
    /\ CommandIdle
    /\ PromptIdle
    /\ lines \in {<<>>} \cup {<<l>> : l \in EnvLines}
    /\ env = EmptyMap
    /\ lastEntry = NoEntry
    /\ lpc = "open"

NextEnvFile ==
    \/ OpenEnvFile
    \/ ScanLine
    \/ ReturnEnv

SpecEnvFile == InitEnvFile /\ [][NextEnvFile]_vars

\* ----------------------- github-secret add --confirm-overwrite on its input
\* lines of standard input, trimmed and in lower case
InputLines == {"y", "no", "ya", "na", "?"}

\* promptForOverwrite, the switch over the response: the answer it stands
\* for, or Nil when the prompt is repeated
Response_OtherIsNo(response) ==
    CASE response \in {"y", "yes"} -> "y"
      [] response \in {"n", "no"} -> "n"
      [] response \in {"ya", "yes-to-all"} -> "ya"
      [] response \in {"na", "no-to-all"} -> "na"
      [] OTHER -> "n"

Response(response) ==
    CASE response \in {"y", "yes"} -> "y"
      [] response \in {"n", "no"} -> "n"
      [] response \in {"ya", "yes-to-all"} -> "ya"
      [] response \in {"na", "no-to-all"} -> "na"
      [] OTHER -> Nil

\* promptForOverwrite, the loop over scanner.Scan() for the lines the scanner
\* gets: the answer that ends it and the number of lines it went through
ScanResponse(stream) ==
    LET valid == {i \in DOMAIN stream : Response(stream[i]) # Nil}
    IN  IF valid = {} THEN [answer |-> "eof", used |-> Len(stream)]
        ELSE LET first == CHOOSE i \in valid : \A j \in valid : i <= j
             IN  [answer |-> Response(stream[first]), used |-> first]

\* One call of setGitHubSecretIfNeeded that takes its answer from standard
\* input. promptForOverwrite makes a new bufio.Scanner for each prompt; the
\* scanner fills its buffer with what a read of standard input returns, one
\* line from a terminal and as much as is there from a pipe or a file, and the
\* lines left in the buffer when promptForOverwrite returns (ahead) go with it.
Confirm(key, isDependabot, next) ==
    \E ghOk \in BOOLEAN, ahead \in 0..Len(stdin) :
        LET scan == ScanResponse(stdin)
            r == setGitHubSecretIfNeeded(key, isDependabot, scan.answer, ghOk)
            asked == r.prompt.prompts = 1
            taken == scan.used + ahead
        IN  /\ taken <= Len(stdin)
            /\ ~asked => ahead = 0
            /\ Process(key, isDependabot, scan.answer, ghOk, next)
            /\ stdin' = IF asked THEN SubSeq(stdin, taken + 1, Len(stdin)) ELSE stdin
            /\ decisions' =
                   IF asked
                   THEN Append(decisions, [pair |-> <<key, ScopeOf(isDependabot)>>,
                                           answer |-> scan.answer,
                                           offset |-> Len(stdin0) - Len(stdin),
                                           used |-> scan.used,
                                           ahead |-> ahead])
                   ELSE decisions
            /\ UNCHANGED stdin0

\* setGitHubSecrets: the repository secret of the next key of the map
ConfirmRepository ==
    /\ pc = "loop"
    /\ \E key \in todo :
         Confirm(key, FALSE,
                 IF dependabot
                 THEN pc' = "dependabot" /\ cur' = key /\ todo' = todo
                 ELSE pc' = "loop" /\ cur' = NoKey /\ todo' = todo \ {key})

\* setGitHubSecrets: the Dependabot secret of the same key
ConfirmDependabot ==
    /\ pc = "dependabot"
    /\ Confirm(cur, TRUE, pc' = "loop" /\ cur' = NoKey /\ todo' = todo \ {cur})

\* github-secret add --confirm-overwrite, the flags and the tools validated and
\* the secrets retrieved; every key is a repository secret already
InitConfirm ==
    /\ repo = "owner/repo"
    /\ dependabot \in BOOLEAN
    /\ dryRun \in BOOLEAN
    /\ force = FALSE
    /\ skipExisting = FALSE
    /\ confirmOverwrite = TRUE
    /\ yesToAll = FALSE
    /\ noToAll = FALSE
    /\ secrets = [k \in Keys |-> NewValue]
    /\ remote \in [Scopes -> [Keys -> {NoSecret, OldValue}]]
    /\ \A k \in Keys : remote["repository"][k] = OldValue
    /\ ~dependabot => \A k \in Keys : remote["Dependabot"][k] = NoSecret
    /\ pc = "list"
    /\ existing = ExistingSecrets
    /\ stats = SecretOperationStats
    /\ todo = {}
    /\ cur = NoKey
    /\ returned = NotReturned
    /\ cmdErr = FALSE
    /\ reported = FALSE
    /\ setCalls = {}
    /\ prompts = 0
    /\ reads = 0
    /\ firstAnswer = Nil
    /\ failedPair = NoPair
    /\ listed = FALSE
    /\ processed = {}
    /\ reports = {}
    /\ run = 1
    /\ prev = NoRun
    /\ remote0 = remote
    /\ stdin \in UNION {[1..n -> InputLines] : n \in 0..MaxInput}
    /\ stdin0 = stdin
    /\ decisions = <<>>
    /\ CollectIdle
    /\ CommandIdle
    /\ EnvFileIdle

NextConfirm ==
    \/ ListExisting
    \/ ConfirmRepository
    \/ ConfirmDependabot
    \/ Finish

SpecConfirm == InitConfirm /\ [][NextConfirm]_vars

\* ------------------------------------------------- claims: synchronization
N == Cardinality(DOMAIN secrets)
NumScopes == IF dependabot THEN 2 ELSE 1
Succeeded == pc = "done" /\ ~cmdErr
\* the (key, scope) pairs of the run whose key is in the scope's listed set
ExistingPairs ==
    {<<k, "repository">> : k \in DOMAIN secrets \cap existing.Repository}
    \cup {<<k, "Dependabot">> : k \in DOMAIN secrets \cap existing.Dependabot}
\* every key of the run was listed in every requested scope
AllExist ==
    /\ DOMAIN secrets \subseteq existing.Repository
    /\ dependabot => DOMAIN secrets \subseteq existing.Dependabot
Untouched(k, s) == <<k, s>> \notin setCalls /\ remote[s][k] = remote0[s][k]

\* C1: in dry-run mode no 'gh secret set' is executed for any key, scope or
\* overwrite policy, and the remote store is what it was when the run began.
C1_DryRunNoMutation == dryRun => (setCalls = {} /\ remote = remote0)

C1_Witness ==
    /\ dryRun /\ Succeeded /\ dependabot
    /\ stats.Created > 0 /\ stats.Updated > 0

\* C2 as stated: a failed mutation stops the run at that pair, no later pair
\* (nor the Dependabot scope of the same key) is mutated, an error is returned,
\* and no statistics object is returned or reported.
NoLaterMutation ==
    /\ \A k \in todo \ {failedPair[1]} : \A s \in Scopes : Untouched(k, s)
    /\ failedPair[2] = "repository" => Untouched(failedPair[1], "Dependabot")

C2_Original ==
    failedPair # NoPair =>
        /\ pc = "done" /\ cmdErr
        /\ NoLaterMutation
        /\ returned.statsNil
        /\ ~reported

\* C2 amended: a failed mutation stops the run at that pair, no later pair is
\* mutated and addGitHubSecrets returns an error without printing a summary;
\* setGitHubSecrets does return the statistics gathered so far, with Failed
\* incremented, next to the error, and the caller drops them.
C2_AbortOnFailure ==
    failedPair # NoPair =>
        /\ pc = "done" /\ cmdErr
        /\ NoLaterMutation
        /\ returned = Return(stats, TRUE)
        /\ stats.Failed = 1
        /\ ~reported

C2_Witness ==
    /\ failedPair # NoPair /\ failedPair[2] = "repository" /\ dependabot
    /\ stats.Created + stats.Updated + stats.Skipped > 0

\* C3 as stated: under SkipExisting no key found in a scope's existing set is
\* mutated there, and a run in which all N keys exist ends with skipped = N,
\* created = 0, updated = 0.
SkipExistingNoMutation ==
    skipExisting => \A p \in ExistingPairs : Untouched(p[1], p[2])

C3_Original ==
    /\ SkipExistingNoMutation
    /\ (skipExisting /\ Succeeded /\ AllExist) =>
           stats.Skipped = N /\ stats.Created = 0 /\ stats.Updated = 0

\* C3 amended: under SkipExisting no key found in a scope's existing set is
\* mutated there, and a run in which all N keys exist in every requested scope
\* ends with skipped = N times the number of requested scopes, created = 0,
\* updated = 0.
C3_SkipExisting ==
    /\ SkipExistingNoMutation
    /\ (skipExisting /\ Succeeded /\ AllExist) =>
           stats.Skipped = N * NumScopes /\ stats.Created = 0 /\ stats.Updated = 0

C3_Witness ==
    /\ skipExisting /\ Succeeded /\ AllExist /\ ~dryRun /\ dependabot
    /\ N = NumKeys /\ stats.Skipped = 2 * N

\* C4 as stated: after a successful real Force run over N keys, a second run,
\* which lists the remote state again, ends with created = 0 and updated = N.
SecondForceRun == run = 2 /\ ~prev.dryRun /\ force /\ Succeeded

C4_Original == SecondForceRun => stats.Created = 0 /\ stats.Updated = N

\* C4 amended: after a successful real Force run over N keys, a second run
\* with the same flags ends with created = 0 and updated = N times the number
\* of requested scopes.
C4_ForceIdempotent ==
    SecondForceRun => stats.Created = 0 /\ stats.Updated = N * NumScopes

C4_Witness ==
    /\ SecondForceRun /\ dependabot /\ N = NumKeys
    /\ prev.stats.Created = 2 * N /\ stats.Updated = 2 * N

\* C5 as stated: for the same secrets, snapshot, scopes and policy the
\* statistics of a real run (one that ends without error) equal those of the
\* dry run.
RealAfterDryRun ==
    /\ run = 2 /\ prev.dryRun /\ ~dryRun
    /\ pc = "done" /\ returned.returned
    /\ existing = prev.existing

C5_Original == (RealAfterDryRun /\ Succeeded) => returned.stats = prev.stats

\* C5 amended: for the same secrets, snapshot, scopes and policy the
\* statistics of a dry run equal those of a real run that ends without error
\* and in which no overwrite was declined (under ConfirmEach a key is skipped
\* only when promptForOverwrite answers no; the dry run approves them all).
C5_DryRunStatistics ==
    (RealAfterDryRun /\ Succeeded /\ (confirmOverwrite => stats.Skipped = 0)) =>
        returned.stats = prev.stats

C5_Witness ==
    /\ RealAfterDryRun /\ Succeeded /\ confirmOverwrite /\ dependabot
    /\ stats.Updated > 1 /\ stats.Created > 0 /\ prompts > 1
    /\ returned.stats = prev.stats

\* C6 as stated: after yes-to-all (no-to-all) every later prompt of the run is
\* approved (declined) without reading input and the state never returns to
\* Undecided; with ConfirmEach, two pre-existing keys and a first answer of
\* yes-to-all exactly one prompt is issued and the run ends with updated = 2,
\* skipped = 0.
Sticky ==
    (run' = run) =>
        /\ yesToAll =>
              /\ yesToAll' /\ ~noToAll'
              /\ reads' = reads /\ prompts' = prompts
              /\ stats'.Skipped = stats.Skipped
        /\ noToAll =>
              /\ noToAll' /\ ~yesToAll'
              /\ reads' = reads /\ prompts' = prompts
              /\ stats'.Updated = stats.Updated
              /\ \A p \in ExistingPairs : p \in setCalls' => p \in setCalls

YesToAllScenario ==
    /\ confirmOverwrite /\ ~dryRun /\ Succeeded
    /\ N = 2 /\ DOMAIN secrets \subseteq existing.Repository
    /\ firstAnswer = "ya"

C6_Original ==
    /\ [][Sticky]_vars
    /\ [](YesToAllScenario =>
            prompts = 1 /\ stats.Updated = 2 /\ stats.Skipped = 0)

\* C6 amended: after yes-to-all (no-to-all) every later prompt of the run is
\* approved (declined) without reading input and the state never returns to
\* Undecided; with ConfirmEach, two keys that exist in the repository scope and
\* a first answer of yes-to-all exactly one prompt is issued and the run ends
\* with skipped = 0 and updated = the number of (key, requested scope) pairs in
\* which the key exists: 2 without --dependabot, up to 4 with it.
C6_StickyConfirmation ==
    /\ [][Sticky]_vars
    /\ [](YesToAllScenario =>
            /\ prompts = 1 /\ stats.Skipped = 0
            /\ stats.Updated = Cardinality(ExistingPairs))

C6_Witness ==
    /\ YesToAllScenario /\ dependabot /\ stats.Updated = 4 /\ reads = 1

\* ------------------------------------------------------ claims: collection
ResultReturned == cpc = "done" /\ collectRet = "result"
AllKeys == SrcKeys \cup OutKeys
\* the adapter of provider i returned a value for key k
Supplies(i, k) == i \in DOMAIN adapterOut /\ k \in DOMAIN adapterOut[i].secrets
Suppliers(kind, k) == {i \in GetProvidersByKind(kind) : Supplies(i, k)}
OneMap(kind, keys, path) == [Kind |-> kind, Maps |-> <<[Keys |-> keys, Path |-> path]>>]
AtoX == [k \in {"A"} |-> "X"]

\* C7: when a google_secretmanager provider and a dotenv provider both supply
\* a value for an output key, the merged namespace holds a dotenv value for it,
\* in either order of declaration; environment A=1, file A=5, both bound A->X
\* gives {X: "5"}.
FileWinsScenario ==
    /\ Len(cfg) = 2
    /\ \E g \in DOMAIN cfg : cfg[g] = OneMap(GSM, AtoX, "gsm")
    /\ \E d \in DOMAIN cfg : cfg[d] = OneMap(Dotenv, AtoX, "f1")
    /\ environ["A"] = "1"
    /\ files["f1"] = Readable([k \in SrcKeys |-> IF k = "A" THEN "5" ELSE ""])

C7_FileWins ==
    ResultReturned =>
        /\ \A k \in AllKeys :
              (Suppliers(GSM, k) # {} /\ Suppliers(Dotenv, k) # {}) =>
                  /\ k \in DOMAIN collected.Secrets
                  /\ collected.Secrets[k] \in
                         {adapterOut[d].secrets[k] : d \in Suppliers(Dotenv, k)}
        /\ FileWinsScenario => collected.Secrets = [k \in {"X"} |-> "5"]

C7_Witness ==
    /\ ResultReturned /\ FileWinsScenario /\ cfg[1].Kind = Dotenv
    /\ collected.Secrets = [k \in {"X"} |-> "5"]
    /\ adapterOut[2].secrets = [k \in {"X"} |-> "1"]

\* C8: when several providers supply the same output key, the merged value is
\* the one of the last provider in declared order that supplies it, the
\* google_secretmanager group before the dotenv group.
Rank(i) == IF cfg[i].Kind = Dotenv THEN Len(cfg) + i ELSE i
LastSupplier(k) ==
    LET sup == {i \in DOMAIN cfg : Supplies(i, k)}
    IN  CHOOSE i \in sup : \A j \in sup : Rank(j) <= Rank(i)

C8_LastDeclaredWins ==
    ResultReturned =>
        \A k \in DOMAIN collected.Secrets :
            collected.Secrets[k] = adapterOut[LastSupplier(k)].secrets[k]

\* C9: for every google_secretmanager provider, each binding whose variable is
\* empty or not set adds no entry to the adapter's namespace and exactly one
\* MissingVariable with its source key, output key and provider name; a
\* binding whose variable has a value adds none.
GSMBindings(i) ==
    {<<m, from>> : m \in DOMAIN cfg[i].Maps, from \in SrcKeys} \cap
    UNION {{<<m, from>> : from \in DOMAIN cfg[i].Maps[m].Keys} : m \in DOMAIN cfg[i].Maps}
Absent(b) == environ[b[2]] = ""
ToKey(i, b) == cfg[i].Maps[b[1]].Keys[b[2]]
MissingOf(i, b) ==
    [VariableName |-> b[2], MappedTo |-> ToKey(i, b), Provider |-> ProviderNames[i]]
Occurrences(seq, r) == Cardinality({j \in DOMAIN seq : seq[j] = r})

C9_MissingVariables ==
    \A i \in DOMAIN adapterOut \cap GetProvidersByKind(GSM) :
        LET out == adapterOut[i]
            absent == {b \in GSMBindings(i) : Absent(b)}
        IN  /\ Len(out.missingVars) = Cardinality(absent)
            /\ \A b \in absent :
                  Occurrences(out.missingVars, MissingOf(i, b)) =
                      Cardinality({c \in absent : MissingOf(i, c) = MissingOf(i, b)})
            /\ \A k \in DOMAIN out.secrets :
                  \E b \in GSMBindings(i) \ absent :
                      ToKey(i, b) = k /\ out.secrets[k] = environ[b[2]]

C9_Witness ==
    \E i \in DOMAIN adapterOut \cap GetProvidersByKind(GSM) :
        /\ Len(cfg[i].Maps) = 2
        /\ Len(adapterOut[i].missingVars) = 2
        /\ adapterOut[i].missingVars[1] = adapterOut[i].missingVars[2]
        /\ DOMAIN adapterOut[i].secrets = {"Y"}
        /\ "X" \notin DOMAIN adapterOut[i].secrets

\* C10: in every result returned without error, HasMissingVars is true
\* exactly when MissingVars is not empty.
C10_HasMissingVars ==
    ResultReturned => (collected.HasMissingVars <=> collected.MissingVars # <<>>)

C10_Witness ==
    /\ ResultReturned /\ collected.HasMissingVars
    /\ Len(collected.MissingVars) = 1
    /\ GetProvidersByKind(Dotenv) # {}

\* C11: if the file of any path map of any dotenv provider cannot be read,
\* CollectSecretsWithResult returns an error and a nil result: what was
\* gathered from the google_secretmanager providers and from earlier dotenv
\* providers is not returned.
UnreadablePaths ==
    UNION {{cfg[i].Maps[m].Path : m \in DOMAIN cfg[i].Maps} : i \in GetProvidersByKind(Dotenv)}
        \cap {f \in Paths : files[f].err}

C11_UnreadableFileAborts ==
    (cpc = "done" /\ UnreadablePaths # {}) =>
        /\ collectRet = "error"
        /\ collectResult = NilResult

C11_Witness ==
    /\ cpc = "done" /\ collectRet = "error" /\ collectResult.nil
    /\ collected.Secrets # EmptyMap
    /\ collected.MissingVars # <<>>

\* the file of path map m of dotenv provider i, as loadEnvFile parsed it
FileOf(i, m) == files[cfg[i].Maps[m].Path].env
DiscoveryMaps(i) == {m \in DOMAIN cfg[i].Maps : DOMAIN cfg[i].Maps[m].Keys = {}}
\* the bindings (path map, source key) of provider i whose source key is in the file
FoundBindings(i) ==
    UNION {{<<m, from>> : from \in DOMAIN cfg[i].Maps[m].Keys \cap DOMAIN FileOf(i, m)} :
              m \in DOMAIN cfg[i].Maps}
\* the values the path maps of provider i can give to output key k
BoundValues(i, k) ==
    {FileOf(i, b[1])[b[2]] : b \in {c \in FoundBindings(i) : ToKey(i, c) = k}}
DiscoveredValues(i, k) ==
    {FileOf(i, m)[k] : m \in {d \in DiscoveryMaps(i) : k \in DOMAIN FileOf(i, d)}}
DotenvDone == DOMAIN adapterOut \cap GetProvidersByKind(Dotenv)

\* C12: for the path maps of a dotenv provider that have bindings, the
\* adapter's result has an entry only for bound source keys found in the file,
\* each under its output key with the file's value; file keys that are not
\* bound are dropped; a bound source key that is not in the file is omitted
\* without error and without a MissingVariable: the step of a dotenv provider
\* fails only for an unreadable file and leaves MissingVars and HasMissingVars
\* as they were.
BoundEntries ==
    \A i \in DotenvDone :
        LET out == adapterOut[i].secrets
        IN  /\ \A k \in DOMAIN out : out[k] \in BoundValues(i, k) \cup DiscoveredValues(i, k)
            /\ \A b \in FoundBindings(i) : ToKey(i, b) \in DOMAIN out
            /\ adapterOut[i].missingVars = <<>>

DotenvStep ==
    (cpc = "run" /\ ProviderLoop = Dotenv) =>
        /\ collected'.MissingVars = collected.MissingVars
        /\ collected'.HasMissingVars = collected.HasMissingVars
        /\ collectRet' = "error" => UnreadablePaths # {}

C12_DotenvBindings == [][DotenvStep]_vars /\ []BoundEntries

C12_Witness ==
    /\ ResultReturned /\ ~collected.HasMissingVars
    /\ \E i \in DotenvDone :
          /\ Len(cfg[i].Maps) = 2
          /\ cfg[i].Maps[1] = [Keys |-> AtoX, Path |-> "f1"]
          /\ cfg[i].Maps[2] = [Keys |-> [k \in {"A"} |-> "Y"], Path |-> "f2"]
          /\ adapterOut[i].secrets = [k \in {"X"} |-> "5"]

\* C13: for a dotenv path map without bindings (discovery mode) the adapter's
\* namespace holds exactly the keys parsed from the file, each under its own
\* name with its parsed value, and nothing else.
C13_Discovery ==
    \A i \in DotenvDone :
        LET out == adapterOut[i].secrets
            last == Len(cfg[i].Maps)
        IN  /\ (last = 1 /\ DiscoveryMaps(i) = {1}) => out = FileOf(i, 1)
            /\ (last > 0 /\ last \in DiscoveryMaps(i)) =>
                   \A k \in DOMAIN FileOf(i, last) :
                       k \in DOMAIN out /\ out[k] = FileOf(i, last)[k]
            /\ DiscoveryMaps(i) = DOMAIN cfg[i].Maps =>
                   DOMAIN out = UNION {DOMAIN FileOf(i, m) : m \in DOMAIN cfg[i].Maps}

C13_Witness ==
    \E i \in DotenvDone :
        /\ cfg[i].Maps = <<[Keys |-> EmptyMap, Path |-> "f1"]>>
        /\ adapterOut[i].secrets = [k \in SrcKeys |-> IF k = "A" THEN "5" ELSE ""]

\* ------------------------------------------- claims: synchronization (2)
OverwriteFlagsSet ==
    {f \in {"force", "skip-existing", "confirm-overwrite"} :
        \/ f = "force" /\ force
        \/ f = "skip-existing" /\ skipExisting
        \/ f = "confirm-overwrite" /\ confirmOverwrite}
Synchronizing == pc \in {"loop", "dependabot"}

\* C15: validateOverwriteFlags returns an error exactly when more than one of
\* force, skipExisting and confirmOverwrite is set; addGitHubSecrets then
\* returns the error before any 'gh secret list' and before any mutation; so
\* during the synchronization at most one of the three flags is true.
C15_ExclusiveOverwriteFlags ==
    /\ validateOverwriteFlags <=> Cardinality(OverwriteFlagsSet) > 1
    /\ Cardinality(OverwriteFlagsSet) > 1 =>
           /\ pc \in {"validate", "done"}
           /\ pc = "done" => cmdErr
           /\ ~listed /\ processed = {} /\ setCalls = {} /\ remote = remote0
    /\ Synchronizing => Cardinality(OverwriteFlagsSet) <= 1

C15_Witness ==
    /\ pc = "done" /\ cmdErr /\ ~listed
    /\ force /\ skipExisting /\ ~confirmOverwrite
    /\ N = NumKeys /\ \A k \in Keys : remote["repository"][k] = NoSecret

\* C19: in a synchronization run no statistics counter decreases, each
\* processed (key, scope) pair increments at most one counter, by one, and
\* created + updated + skipped + failed never exceeds the number of pairs
\* processed so far.
Counters == {"Created", "Updated", "Skipped", "Failed"}
Total(s) == s.Created + s.Updated + s.Skipped + s.Failed
Incremented == {c \in Counters : stats'[c] # stats[c]}

CountersStep ==
    (run' = run) =>
        /\ \A c \in Counters : stats'[c] >= stats[c]
        /\ processed \subseteq processed'
        /\ Cardinality(Incremented) <= Cardinality(processed' \ processed)
        /\ \A c \in Incremented : stats'[c] = stats[c] + 1

C19_StatisticsBounded ==
    /\ [][CountersStep]_vars
    /\ [](Total(stats) <= Cardinality(processed))

C19_Witness ==
    /\ dependabot /\ failedPair # NoPair
    /\ Cardinality(processed) = 2 * NumKeys
    /\ stats.Created > 0 /\ stats.Updated > 0 /\ stats.Skipped > 0 /\ stats.Failed = 1
    /\ Total(stats) = Cardinality(processed)

\* --------------------------------------- claims: what is handed to GitHub
\* the bindings (source key, output key) of the providers of a kind
BindingsOf(kind) ==
    UNION {UNION {{<<from, cfg[i].Maps[m].Keys[from]>> : from \in DOMAIN cfg[i].Maps[m].Keys} :
                     m \in DOMAIN cfg[i].Maps} :
              i \in GetProvidersByKind(kind)}
GSMOutputKeys == {b[2] : b \in BindingsOf(GSM)}
Changed == {<<k, s>> \in Keys \X Scopes : remote[s][k] # remote0[s][k]}

\* C16: a key of teller's output is passed to the synchronization only if it
\* is an output key bound by a google_secretmanager provider; keys that only
\* dotenv providers supply are never uploaded; without a
\* google_secretmanager provider nothing is uploaded.
C16_OnlyGSMSecrets ==
    /\ \A g \in DOMAIN secrets :
          \E b \in BindingsOf(GSM) :
              /\ b[1] = g /\ b[2] \in DOMAIN allSecrets
              /\ secrets[g] = allSecrets[b[2]]
    /\ \A p \in processed \cup setCalls \cup Changed :
          /\ p[1] \in DOMAIN secrets
          /\ \E o \in GSMOutputKeys \cap DOMAIN allSecrets : <<p[1], o>> \in BindingsOf(GSM)
    /\ \A p \in Changed : remote[p[2]][p[1]] = secrets[p[1]]
    /\ GetProvidersByKind(GSM) = {} =>
           secrets = EmptyMap /\ processed = {} /\ setCalls = {} /\ remote = remote0

C16_Witness ==
    /\ Succeeded /\ ~dryRun
    /\ cfg = <<OneMap(GSM, AtoX, "gsm"), OneMap(Dotenv, EmptyMap, "f1")>>
    /\ DOMAIN allSecrets = SrcKeys \cup OutKeys
    /\ DOMAIN secrets = {"A"}
    /\ setCalls = {<<"A", "repository">>, <<"A", "Dependabot">>}
    /\ remote["repository"]["B"] = NoSecret

\* C17 as stated: every key of the namespace returned by the collection and
\* of the one handed to the synchronization is the output key of a binding or
\* a discovered file key, never the source key of a binding whose output key
\* differs.
OutputKeys == {b[2] : b \in BindingsOf(GSM) \cup BindingsOf(Dotenv)}
DiscoveredKeys ==
    UNION {UNION {DOMAIN FileOf(i, m) : m \in DiscoveryMaps(i)} :
              i \in GetProvidersByKind(Dotenv)}
CollectedKeysAreOutputKeys ==
    cpc # "idle" => DOMAIN collected.Secrets \subseteq OutputKeys \cup DiscoveredKeys

C17_Original ==
    /\ CollectedKeysAreOutputKeys
    /\ pc # "idle" => DOMAIN secrets \subseteq GSMOutputKeys

\* C17 amended: every key of the namespace returned by the collection is the
\* output key of a binding or a discovered file key; the map handed to the
\* synchronization is keyed the other way round, by the source key of a
\* google_secretmanager binding whose output key is in teller's output.
C17_NamespaceKeys ==
    /\ CollectedKeysAreOutputKeys
    /\ pc # "idle" =>
           DOMAIN secrets \subseteq
               {b[1] : b \in {c \in BindingsOf(GSM) : c[2] \in DOMAIN allSecrets}}

C17_Witness ==
    /\ pc = "done" /\ Succeeded
    /\ cfg = <<OneMap(GSM, [k \in SrcKeys |-> IF k = "A" THEN "X" ELSE "Y"], "gsm")>>
    /\ DOMAIN allSecrets = OutKeys
    /\ DOMAIN secrets = SrcKeys
    /\ secrets["A"] = allSecrets["X"]
    /\ <<"B", "repository">> \in setCalls

\* C18: what a run reports about a mutation (the 'Would execute' line, the
\* debug line of the command, the error) names the key, the scope and the
\* repository and holds no secret value: the reports are determined by the
\* pairs processed and their outcomes, so two runs that differ only in the
\* values report the same.
ReportOf(kind, p, body) ==
    [kind |-> kind, key |-> p[1], scope |-> p[2], repo |-> repo, body |-> body]
Values == {secrets[k] : k \in DOMAIN secrets}
ExpectedReports ==
    IF dryRun
    THEN {ReportOf("Would execute", p, "<redacted>") :
             p \in processed \ (IF skipExisting THEN ExistingPairs ELSE {})}
    ELSE {ReportOf("Executing", p, "<redacted>") : p \in setCalls}
         \cup {ReportOf("failed to set", p, "") : p \in {failedPair} \ {NoPair}}

C18_ReportsHideValues ==
    /\ \A r \in reports : r.body \notin Values /\ <<r.key, r.scope>> \in processed
    /\ reports = ExpectedReports

C18_Witness ==
    /\ ~dryRun /\ failedPair = <<"A", "Dependabot">>
    /\ secrets["A"] = OtherValue
    /\ Cardinality(reports) = 3

\* ------------------------------------------------ claims: run, export, sh
CommandLeft == githubActions /\ outcome # NoOutcome /\ collectRet = "result"
MissingReported == collectResult.value.MissingVars # <<>>
MissingOutputKeys ==
    {collectResult.value.MissingVars[j].MappedTo : j \in DOMAIN collectResult.value.MissingVars}
HaltsOnMissing ==
    (CommandLeft /\ MissingReported /\ ~silent) =>
        outcome.kind = "missing" /\ outcome.err /\ outcome.secrets = EmptyMap
ProceedsWhenSilent ==
    (CommandLeft /\ MissingReported /\ silent) =>
        /\ outcome.kind = (IF command = "run" THEN "executed" ELSE "printed")
        /\ outcome.secrets = collected.Secrets

\* C14 as stated: in GitHub Actions mode, with a missing variable reported and
\* without --silent, run, export and sh return an error before executing the
\* command or printing a secret; with --silent they go on with exactly the
\* secrets found, and the output key of a missing variable does not appear.
C14_Original ==
    /\ HaltsOnMissing
    /\ ProceedsWhenSilent
    /\ (CommandLeft /\ silent) => MissingOutputKeys \cap DOMAIN outcome.secrets = {}

\* C14 amended: the same, but the output key of a missing variable appears
\* exactly when another binding or a file supplies a value for it.
C14_MissingVariablesHalt ==
    /\ HaltsOnMissing
    /\ ProceedsWhenSilent
    /\ (CommandLeft /\ silent) =>
           \A k \in MissingOutputKeys :
               k \in DOMAIN outcome.secrets <=> \E i \in DOMAIN cfg : Supplies(i, k)

C14_Witness ==
    /\ CommandLeft /\ silent /\ command = "run" /\ ~outcome.err
    /\ cfg = <<OneMap(GSM, [k \in SrcKeys |-> "X"], "gsm")>>
    /\ environ["A"] = "" /\ environ["B"] = "2"
    /\ MissingOutputKeys = {"X"}
    /\ outcome.secrets = [k \in {"X"} |-> "2"]

\* ---------------------------------------------------- claims: loadEnvFile
Quote(c) == c = DQ \/ c = SQ
Wrapped(v) == Len(v) >= 2 /\ Quote(v[1]) /\ v[Len(v)] = v[1]
Between(v) == [i \in 1..(Len(v) - 2) |-> v[i + 1]]

\* C20: loadEnvFile strips exactly one pair of quotes from a value of at
\* least two characters that begins and ends with the same quote character,
\* double or single, and keeps what is between them as it is (K="a a" gives
\* a a); a value with mismatched quotes, a lone quote character or quotes
\* only inside is left as it is, and no second pair is stripped.
C20_QuotesStrippedOnce ==
    lastEntry.isEntry /\ lpc # "error" =>
        LET v == lastEntry.value
            parsed == env[lastEntry.key]
        IN  /\ lastEntry.key \in DOMAIN env
            /\ Wrapped(v) => parsed = Between(v)
            /\ ~Wrapped(v) => parsed = v
            /\ v = <<DQ, "a", " ", "a", DQ>> => parsed = <<"a", " ", "a">>
            /\ v \in {<<DQ>>, <<SQ>>, <<DQ, SQ>>, <<SQ, "a", DQ>>, <<"a", DQ, DQ, "a">>} =>
                   parsed = v

C20_Witness ==
    /\ lpc = "done" /\ lastEntry.isEntry
    /\ lastEntry.value = <<DQ, SQ, "a", SQ, DQ>>
    /\ env = [k \in {<<"K">>} |-> <<SQ, "a", SQ>>]

\* ------------------------------------- claims: the decision for one secret
ExistingIn(scope) == IF scope = "Dependabot" THEN existing.Dependabot ELSE existing.Repository
\* the (key, scope) pairs setGitHubSecretIfNeeded is called for in this step
Handled == IF run' = run THEN processed' \ processed ELSE {}
\* setGitHubSecret was called for the pair: gh was executed or, in dry-run
\* mode, the 'Would execute' line was printed
MutationOf(p, calls, printed) ==
    IF dryRun THEN Report("Would execute", p[1], p[2] = "Dependabot", "<redacted>") \in printed
    ELSE p \in calls
NotAsked == prompts' = prompts /\ reads' = reads /\ yesToAll' = yesToAll /\ noToAll' = noToAll
\* the mutation of the pair returned an error: setGitHubSecrets counts it as
\* failed and returns
Aborted(p) ==
    /\ failedPair' = p /\ pc' = "done" /\ cmdErr'
    /\ stats' = [stats EXCEPT !.Failed = @ + 1]
CountedAs(counter) == stats' = [stats EXCEPT ![counter] = @ + 1]
AbsentPairs == {p \in processed : p[1] \notin ExistingIn(p[2])}

\* C21: whatever the overwrite flags are, setGitHubSecretIfNeeded called for a
\* key that is not in the existing set of the scope calls setGitHubSecret for
\* that scope without any prompt and returns "created": created grows by one,
\* skipped and updated stay (a mutation that returns an error ends the run
\* instead, counted as failed). A run that ends without error has counted one
\* created for every such pair.
CreateStep ==
    \A p \in Handled :
        p[1] \notin ExistingIn(p[2]) =>
            /\ MutationOf(p, setCalls', reports')
            /\ NotAsked
            /\ stats'.Skipped = stats.Skipped /\ stats'.Updated = stats.Updated
            /\ CountedAs("Created") \/ Aborted(p)
            /\ ~dryRun /\ failedPair' # p => remote'[p[2]][p[1]] = secrets[p[1]]

C21_AbsentCreated ==
    /\ [][CreateStep]_vars
    /\ [](Succeeded => stats.Created = Cardinality(AbsentPairs))

C21_Witness ==
    /\ Succeeded /\ ~dryRun /\ dependabot /\ skipExisting
    /\ AbsentPairs = {<<"A", "Dependabot">>, <<"B", "repository">>}
    /\ AbsentPairs \subseteq setCalls
    /\ stats.Created = 2 /\ stats.Skipped = 2 /\ prompts = 0

\* --force, or none of the three overwrite flags
ForceOrDefault == ~skipExisting /\ ~confirmOverwrite
Outcomes(pairs) == Cardinality(pairs \ {failedPair})
\* what a run under --force or under the default has counted and executed, as
\* a function of what does not mention the force flag
ExpectedStats ==
    [Created |-> Outcomes(AbsentPairs),
     Updated |-> Outcomes(processed \ AbsentPairs),
     Skipped |-> 0,
     Failed |-> IF failedPair = NoPair THEN 0 ELSE 1]
ExpectedCalls == IF dryRun THEN {} ELSE processed
ExpectedRemote ==
    [s \in Scopes |-> [k \in Keys |->
        IF <<k, s>> \in ExpectedCalls \ {failedPair} THEN secrets[k] ELSE remote0[s][k]]]

\* C22: under --force and under the default (no overwrite flag) a key that is
\* in the existing set of the scope gets setGitHubSecret called for that scope
\* without any prompt and is counted as updated (a mutation that returns an
\* error ends the run instead, counted as failed); mutations and statistics
\* are the same function of the inputs under both policies.
UpdateStep ==
    \A p \in Handled :
        ForceOrDefault /\ p[1] \in ExistingIn(p[2]) =>
            /\ MutationOf(p, setCalls', reports')
            /\ NotAsked
            /\ CountedAs("Updated") \/ Aborted(p)

C22_ForceAndDefaultUpdate ==
    /\ [][UpdateStep]_vars
    /\ [](ForceOrDefault =>
            /\ stats = ExpectedStats
            /\ setCalls = ExpectedCalls
            /\ remote = ExpectedRemote
            /\ prompts = 0)

C22_Witness ==
    /\ ~force /\ ForceOrDefault /\ Succeeded /\ ~dryRun /\ dependabot
    /\ stats.Updated = 3 /\ stats.Created = 1
    /\ Cardinality(setCalls) = 4 /\ prompts = 0

\* ------------------------------------------ claims: the confirmation prompts
Undecided == ~yesToAll /\ ~noToAll
LastDecision == decisions'[Len(decisions')]
Asked == Len(decisions') = Len(decisions) + 1 /\ prompts' = prompts + 1
\* what the confirmation state machine answers in this step: the global
\* decision if there is one, yes in a dry run, and otherwise what is read
AnswersNo ==
    \/ noToAll
    \/ Undecided /\ ~dryRun /\ Asked /\ LastDecision.answer \in {"n", "na", "eof"}
AnswersYes ==
    \/ yesToAll
    \/ Undecided /\ dryRun
    \/ Undecided /\ ~dryRun /\ Asked /\ LastDecision.answer \in {"y", "ya"}
NoMutation(p) ==
    /\ p \notin setCalls' /\ setCalls' = setCalls
    /\ remote' = remote /\ reports' = reports

\* C23: under --confirm-overwrite, for a key that is in the existing set of
\* the scope: when the confirmation state machine answers no the pair is
\* counted as skipped and setGitHubSecret is not called for it; otherwise
\* setGitHubSecret is called for it and it is counted as updated (a mutation
\* that returns an error ends the run instead, counted as failed).
ConfirmStep ==
    \A p \in Handled :
        confirmOverwrite /\ p[1] \in ExistingIn(p[2]) =>
            /\ AnswersNo \/ AnswersYes
            /\ AnswersNo => CountedAs("Skipped") /\ NoMutation(p) /\ ~cmdErr'
            /\ AnswersYes =>
                   /\ MutationOf(p, setCalls', reports')
                   /\ CountedAs("Updated") \/ Aborted(p)

C23_ConfirmEach == [][ConfirmStep]_vars

C23_Witness ==
    /\ Succeeded /\ ~dryRun /\ ~dependabot /\ Len(decisions) = 2
    /\ decisions[1].answer = "n" /\ decisions[2].answer = "y"
    /\ stats.Skipped = 1 /\ stats.Updated = 1
    /\ setCalls = {<<decisions[2].pair[1], "repository">>}
    /\ remote["repository"][decisions[1].pair[1]] = OldValue

Recognised == {"y", "yes", "n", "no", "ya", "yes-to-all", "na", "no-to-all"}
IsRecognised(line) == line \in Recognised
\* the lines the scanner went through for the prompt of this step
Scanned(d) == SubSeq(stdin, 1, d.used)

\* C24: while neither yes-to-all nor no-to-all has been given, every key found
\* in the existing set is asked about, and for the prompt of a step: y
\* approves it and n or the end of input declines it, all three leaving
\* yesToAll and noToAll as they are; unrecognised lines decide nothing (the
\* answer is the one read without them) and change nothing; the end of input
\* counts the pair as skipped without any error, the run being still in the
\* loop of setGitHubSecrets.
UndecidedStep ==
    /\ \A p \in Handled :
           Undecided /\ ~dryRun /\ confirmOverwrite /\ p[1] \in ExistingIn(p[2]) => Asked
    /\ Asked =>
           LET d == LastDecision
           IN  /\ Undecided /\ d.pair \in Handled
               /\ d.answer = ScanResponse(SelectSeq(Scanned(d), IsRecognised)).answer
               /\ d.answer \in {"y", "n", "eof"} => yesToAll' = yesToAll /\ noToAll' = noToAll
               /\ d.answer = "y" =>
                      /\ MutationOf(d.pair, setCalls', reports')
                      /\ CountedAs("Updated") \/ Aborted(d.pair)
               /\ d.answer \in {"n", "eof"} =>
                      /\ CountedAs("Skipped") /\ NoMutation(d.pair)
                      /\ ~cmdErr' /\ failedPair' = NoPair
                      /\ pc' \in {"loop", "dependabot"}
               /\ d.answer = "eof" => \A i \in DOMAIN stdin : ~IsRecognised(stdin[i])

C24_UndecidedAnswers == [][UndecidedStep]_vars

C24_Witness ==
    /\ Succeeded /\ Undecided /\ stdin0 = <<"?", "y", "no">>
    /\ Len(decisions) = 4
    /\ decisions[1].answer = "y" /\ decisions[1].used = 2
    /\ decisions[2].answer = "n"
    /\ decisions[3].answer = "eof" /\ decisions[4].answer = "eof"
    /\ stats.Updated = 1 /\ stats.Skipped = 3 /\ stats.Failed = 0

\* C25: in a dry run under --confirm-overwrite every key found in the
\* existing set of the scope is approved without a prompt: nothing is read
\* from standard input, yesToAll and noToAll stay as they are, the 'Would
\* execute' line is printed and the pair is counted as updated.
DryRunConfirmStep ==
    \A p \in Handled :
        dryRun /\ confirmOverwrite /\ p[1] \in ExistingIn(p[2]) =>
            /\ NotAsked
            /\ stdin' = stdin /\ decisions' = decisions
            /\ MutationOf(p, setCalls', reports') /\ setCalls' = {}
            /\ CountedAs("Updated")

C25_DryRunApproves ==
    /\ [][DryRunConfirmStep]_vars
    /\ [](dryRun => Undecided /\ prompts = 0 /\ reads = 0 /\ stdin = stdin0)

C25_Witness ==
    /\ dryRun /\ confirmOverwrite /\ Succeeded /\ dependabot
    /\ stats.Updated = 3 /\ stats.Created = 1 /\ stats.Skipped = 0
    /\ stdin = <<"no", "na", "?">> /\ decisions = <<>> /\ setCalls = {}
    /\ Cardinality(reports) = 4

\* ------------------------------------------------------ claims: the scopes
RequestedScopes == IF dependabot THEN Scopes ELSE {"repository"}
OnlyRepository == (DOMAIN secrets \cap existing.Repository) \ existing.Dependabot
Mutated(p) == MutationOf(p, setCalls, reports)
\* the pairs processed are pairs of the requested scopes, the repository
\* scope of a key before its Dependabot scope, and all of them when
\* setGitHubSecrets returns without error
ScopesProcessed ==
    /\ processed \subseteq (DOMAIN secrets) \X RequestedScopes
    /\ \A k \in Keys : <<k, "Dependabot">> \in processed => <<k, "repository">> \in processed
    /\ Succeeded => processed = (DOMAIN secrets) \X RequestedScopes
\* a pair is counted as created exactly when the key is not in the set of
\* the pair's own scope (or the run ends on the failed mutation)
ScopeStep ==
    \A p \in Handled :
        IF p[1] \in ExistingIn(p[2])
        THEN stats'.Created = stats.Created
        ELSE /\ stats'.Updated = stats.Updated /\ stats'.Skipped = stats.Skipped
             /\ CountedAs("Created") \/ Aborted(p)

\* C26 as stated: every key is processed in the repository scope and, exactly
\* when --dependabot is set, in the Dependabot scope after it; existence is
\* decided from the scope's own set, so a key that exists in the repository
\* scope only is updated there and created in the Dependabot scope.
C26_Original ==
    /\ [][ScopeStep]_vars
    /\ []ScopesProcessed
    /\ [](Succeeded /\ dependabot =>
            \A k \in OnlyRepository :
                Mutated(<<k, "repository">>) /\ Mutated(<<k, "Dependabot">>))

\* C26 amended: every key is processed in the repository scope and, exactly
\* when --dependabot is set, in the Dependabot scope after it, in every run
\* that no error ends; existence is decided from the scope's own set, so a
\* key that exists in the repository scope only is created in the Dependabot
\* scope and handled as an existing key in the repository scope: updated
\* under --force and the default, skipped under --skip-existing, and updated
\* or skipped under --confirm-overwrite as the confirmation answers.
C26_ScopesIndependent ==
    /\ [][ScopeStep]_vars
    /\ []ScopesProcessed
    /\ [](Succeeded /\ dependabot =>
            \A k \in OnlyRepository :
                /\ Mutated(<<k, "Dependabot">>)
                /\ ForceOrDefault => Mutated(<<k, "repository">>)
                /\ skipExisting /\ ~dryRun => Untouched(k, "repository")
                /\ stats.Created >= 1
                /\ stats.Updated + stats.Skipped >= 1)

C26_Witness ==
    /\ Succeeded /\ dependabot /\ skipExisting /\ ~dryRun
    /\ OnlyRepository = {"A"} /\ DOMAIN secrets = {"A"}
    /\ setCalls = {<<"A", "Dependabot">>}
    /\ stats.Skipped = 1 /\ stats.Created = 1 /\ stats.Updated = 0

\* what 'gh secret list' reported for the store the run began with
Snapshot ==
    [Repository |-> {k \in Keys : remote0["repository"][k] # NoSecret},
     Dependabot |-> IF dependabot THEN {k \in Keys : remote0["Dependabot"][k] # NoSecret}
                    ELSE {}]
ListingFailed == listed /\ pc = "done" /\ cmdErr /\ failedPair = NoPair
NothingSet ==
    /\ setCalls = {} /\ processed = {} /\ reports = {}
    /\ remote = remote0 /\ stats = SecretOperationStats
    /\ ~returned.returned /\ ~reported

\* C27: in a run of github-secret add the listings of the repository and,
\* with --dependabot, of the Dependabot secrets are done before the first
\* secret is set; the listed sets stay what was listed while the keys are
\* processed; a listing that fails ends the run with an error and no secret
\* created or updated.
ListedFirst ==
    /\ processed # {} => listed /\ existing = Snapshot
    /\ ~listed => NothingSet /\ existing = ExistingSecrets
    /\ ListingFailed => NothingSet
SnapshotStep ==
    /\ Handled # {} => existing' = existing /\ listed /\ listed'
    /\ pc = "list" /\ pc' = "done" => cmdErr' /\ setCalls' = {} /\ remote' = remote

C27_ListedBeforeMutation == [][SnapshotStep]_vars /\ []ListedFirst

C27_Witness ==
    /\ run = 2 /\ ListingFailed /\ dependabot
    /\ prev.stats.Created = 2 /\ prev.stats.Updated = 2
    /\ prev.existing.Repository # listGitHubSecrets(FALSE)
    /\ prev.existing.Dependabot # listGitHubSecrets(TRUE)

\* C28: when setGitHubSecrets returns its statistics without an error, created
\* + updated + skipped is the number of keys times the number of requested
\* scopes (1, or 2 with --dependabot) and failed is 0.
C28_StatisticsComplete ==
    returned.returned /\ ~returned.err =>
        /\ returned.stats.Created + returned.stats.Updated + returned.stats.Skipped
               = N * NumScopes
        /\ returned.stats.Failed = 0

C28_Witness ==
    /\ returned.returned /\ ~returned.err /\ dependabot /\ N = 2
    /\ returned.stats.Created = 1 /\ returned.stats.Updated = 1
    /\ returned.stats.Skipped = 2

\* C29: in a run, which begins with yesToAll and noToAll false, the two are
\* never both true, and each of them changes only from false to true and so
\* once at most: the confirmation state is one of undecided, yes to all and
\* no to all.
MonotoneStep ==
    run' = run =>
        /\ yesToAll => yesToAll'
        /\ noToAll => noToAll'
        /\ yesToAll' # yesToAll \/ noToAll' # noToAll =>
               /\ Undecided /\ prompts' = prompts + 1
               /\ yesToAll' # noToAll'

C29_ConfirmationState ==
    /\ [][MonotoneStep]_vars
    /\ [](~(yesToAll /\ noToAll))
    /\ [](pc = "validate" => Undecided)

C29_Witness ==
    /\ Succeeded /\ confirmOverwrite /\ dependabot /\ ~dryRun
    /\ noToAll /\ ~yesToAll
    /\ firstAnswer = "y" /\ prompts = 2
    /\ stats.Updated = 1 /\ stats.Skipped = 3

\* the recognised lines standard input held when the run began
ValidAnswers == SelectSeq(stdin0, IsRecognised)
KthAnswer(k) == IF k <= Len(ValidAnswers) THEN Response(ValidAnswers[k]) ELSE "eof"
\* the lines of standard input up to the k-th recognised one
RECURSIVE ThroughKth(_, _)
ThroughKth(stream, k) ==
    IF k = 0 \/ stream = <<>> THEN 0
    ELSE 1 + ThroughKth(Tail(stream), IF IsRecognised(Head(stream)) THEN k - 1 ELSE k)

\* C30: in a real run under --confirm-overwrite in which neither yes-to-all
\* nor no-to-all is answered, the k-th prompt is decided by the k-th recognised
\* line of standard input (by the end of input when there is none), and no
\* line meant for a later prompt is taken while an earlier prompt is answered:
\* after k prompts standard input holds what follows its k-th recognised line.
C30_AnswersInOrder ==
    ~dryRun /\ Undecided =>
        /\ \A k \in DOMAIN decisions :
               /\ decisions[k].answer = KthAnswer(k)
               /\ decisions[k].ahead = 0
        /\ stdin = SubSeq(stdin0, ThroughKth(stdin0, Len(decisions)) + 1, Len(stdin0))

====
